---- MODULE Spec2Model ----
(***************************************************************************)
(* AmeleOrderBot (src/jfp.py): the in-memory conversation state store      *)
(* (UserState), the order store (OrderManager) and the Telegram handlers   *)
(* that drive the idea -> token intake flow.                               *)
(*                                                                         *)
(* Strings are sequences of one-character strings, so that strip(), len(), *)
(* ':' in s and the ORD%06d formatting are computed as the code computes   *)
(* them.  State labels and callback data are sequences whose first element *)
(* is the literal prefix the code matches on (an atom), followed by the    *)
(* characters of the order id.  Optional values are <<>> (None) or <<v>>.  *)
(***************************************************************************)
EXTENDS Integers, Sequences, FiniteSets, TLC

(***************************************************************************)
(* Bounds of the exploration.                                              *)
(***************************************************************************)
MaxOrders == 1      \* orders the bot handlers may create (Spec)
MaxLedgerOrders == 2 \* orders in the store (SpecLedger)
MaxApiOrders == 1   \* orders created by direct create_order calls (SpecOrders)
MaxCalls == 3       \* create_order calls issued by the threads (SpecConc)
NumThreads == 2     \* threads calling into the order store (SpecConc)
RecursionLimit == 3 \* nesting depth at which a call raises RecursionError
MaxRuns == 5        \* updates handled by the threads (SpecRace)
MaxStampCalls == 3  \* update_order_status calls issued by the threads (SpecStamp)
MaxTicks == 2       \* seconds the wall clock advances (SpecStamp)
MaxBookOrders == 2  \* orders placed (SpecBooks, SpecDays)
MaxDays == 1        \* midnights the clock passes (SpecDays)
MaxIdeas == 2       \* ideas accepted from one user (SpecIntake)

(***************************************************************************)
(* Program constants.                                                      *)
(***************************************************************************)
ADMIN_ID == 1        \* os.getenv('ADMIN_ID'): the operator's numeric id
MinIdeaLen == 10     \* len(message.text.strip()) < 10
MinTokenLen == 20    \* len(token) < 20
OrderIdWidth == 6    \* f"ORD{self.order_counter:06d}"

ADMIN_IDS == {ADMIN_ID}
Users == {1, 2}
\* the browsers that call the web routes, each with its own session cookie
Browsers == {1, 2}
Threads == 1..NumThreads

None == <<>>
Some(v) == <<v>>

(***************************************************************************)
(* Python string operations.                                               *)
(***************************************************************************)
Rep(c, n) == [i \in 1..n |-> c]

Whitespace == {" ", "\t", "\n"}
DigitChars == <<"0", "1", "2", "3", "4", "5", "6", "7", "8", "9">>

RECURSIVE lstrip(_)
lstrip(s) ==
    IF s # <<>> /\ Head(s) \in Whitespace THEN lstrip(Tail(s)) ELSE s

RECURSIVE rstrip(_)
rstrip(s) ==
    IF s # <<>> /\ s[Len(s)] \in Whitespace
    THEN rstrip(SubSeq(s, 1, Len(s) - 1))
    ELSE s

\* str.strip()
strip(s) == rstrip(lstrip(s))

\* c in s
Contains(s, c) == \E i \in 1..Len(s) : s[i] = c

\* str.isdigit()
isdigit(s) ==
    /\ s # <<>>
    /\ \A i \in 1..Len(s) : \E d \in 1..10 : DigitChars[d] = s[i]

\* s.startswith(prefix), prefix one atom
startswith(s, prefix) == s # <<>> /\ s[1] = prefix

\* s.replace(prefix, ''): every occurrence of the atom is removed
replace(s, prefix) == SelectSeq(s, LAMBDA a : a # prefix)

\* the decimal digits of n, most significant first
RECURSIVE Digits(_)
Digits(n) ==
    IF n < 10 THEN <<DigitChars[n + 1]>>
    ELSE Digits(n \div 10) \o <<DigitChars[(n % 10) + 1]>>

\* f"{n:06d}": zero-padded to at least six digits, never truncated
Format06d(n) ==
    LET d == Digits(n)
    IN  IF Len(d) >= OrderIdWidth THEN d ELSE Rep("0", OrderIdWidth - Len(d)) \o d

\* f"ORD{n:06d}"
FormatOrderId(n) == <<"O", "R", "D">> \o Format06d(n)

\* int(ch) of one digit character
DigitValue(ch) == (CHOOSE d \in 1..10 : DigitChars[d] = ch) - 1

\* int(s) of a digit string
RECURSIVE ParseInt(_)
ParseInt(s) ==
    IF s = <<>> THEN 0
    ELSE 10 * ParseInt(SubSeq(s, 1, Len(s) - 1)) + DigitValue(s[Len(s)])

\* the numeric part of an order id (the characters after "ORD")
NumericPart(id) == ParseInt(SubSeq(id, 4, Len(id)))

(***************************************************************************)
(* Python dict: a function whose domain is the set of keys present.        *)
(***************************************************************************)
EmptyDict == [k \in {} |-> 0]

DictSet(d, k, v) == [x \in (DOMAIN d) \cup {k} |-> IF x = k THEN v ELSE d[x]]

\* d.pop(k, None): no error when k is absent
DictPop(d, k) == [x \in (DOMAIN d) \ {k} |-> d[x]]

\* d.get(k): None when absent
DictGet(d, k) == IF k \in DOMAIN d THEN Some(d[k]) ELSE None

(***************************************************************************)
(* The orders dict keeps insertion order: a sequence of (key, val) entries *)
(* with distinct keys.  Assigning to a key that is present replaces the    *)
(* value in place.                                                         *)
(***************************************************************************)
OrdKeys(od) == {od[i].key : i \in 1..Len(od)}

OrdIndex(od, k) == CHOOSE i \in 1..Len(od) : od[i].key = k

OrdSet(od, k, v) ==
    IF k \in OrdKeys(od)
    THEN [od EXCEPT ![OrdIndex(od, k)] = [key |-> k, val |-> v]]
    ELSE Append(od, [key |-> k, val |-> v])

\* self.orders.get(order_id)
OrdGet(od, k) == IF k \in OrdKeys(od) THEN Some(od[OrdIndex(od, k)].val) ELSE None

\* list(self.orders.values())
OrdValues(od) == [i \in 1..Len(od) |-> od[i].val]

(***************************************************************************)
(* Fixed strings of the program.                                           *)
(***************************************************************************)
WAITING_FOR_IDEA == <<"waiting_for_idea">>
WAITING_FOR_TOKEN == <<"waiting_for_token">>
SETTING_PRICE == "setting_price_"
ADDING_NOTE == "adding_note_"
BOT_IDEA == "bot_idea"

\* OrderStatus
PENDING == "PENDING"
PROCESSING == "PROCESSING"
COMPLETED == "COMPLETED"
CANCELLED == "CANCELLED"
OrderStatus == {PENDING, PROCESSING, COMPLETED, CANCELLED}

\* the placeholder of estimated_price and estimated_time (a fixed Persian
\* phrase of three words)
PLACEHOLDER == <<"dar", " ", "hal", " ", "barresi">>
\* the currency word appended to a price
TOMAN == "toman"

(***************************************************************************)
(* The program's state.                                                    *)
(***************************************************************************)
VARIABLES
    user_states,    \* UserState.user_states: user id -> state label
    user_data,      \* UserState.user_data: user id -> (key -> value)
    orders,         \* OrderManager.orders, in insertion order
    order_counter,  \* OrderManager.order_counter
    lock,           \* OrderManager.lock: 0 when free, else the holding thread
    clock,          \* the latest wall-clock reading
    pc,             \* each thread's position in create_order
    frame,          \* each thread's local variables in create_order
    alloc,          \* history: the ids computed at line 104, in that order
    returned,       \* history: the ids of the orders create_order returned
    calls,          \* history: number of create_order calls issued
    conv_idea,      \* history: the idea accepted in the user's conversation
    flows,          \* history: accepted idea-then-token sequences per user
    conv_orders,    \* history: orders stored for the user since the user's latest
                    \* entry into waiting_for_token
    session,        \* Flask session of each browser: whether admin_logged_in is set
    entered,        \* history: order id -> the latest integer entered as its price
    accepted,       \* history: the ideas accepted from each user, in order (SpecIntake)
    last            \* history: the latest event, its inputs and its result

vars == <<user_states, user_data, orders, order_counter, lock, clock,
          pc, frame, alloc, returned, calls, conv_idea, flows,
          conv_orders, session, entered, accepted, last>>

\* the two stores as one value, threaded through a handler's statements
World == [user_states |-> user_states, user_data |-> user_data,
          orders |-> orders, order_counter |-> order_counter]

(***************************************************************************)
(* class Order                                                             *)
(***************************************************************************)
Order(user_id, user_name, order_id, bot_idea, bot_token, now) ==
    [user_id |-> user_id, user_name |-> user_name, order_id |-> order_id,
     bot_idea |-> bot_idea, bot_token |-> bot_token, bot_username |-> None,
     status |-> PENDING, created_at |-> now, admin_notes |-> <<>>,
     estimated_price |-> PLACEHOLDER, estimated_time |-> PLACEHOLDER,
     completed_at |-> None]

(***************************************************************************)
(* class UserState                                                         *)
(***************************************************************************)
set_state(w, user_id, state) ==
    [w EXCEPT !.user_states = DictSet(@, user_id, state)]

get_state(w, user_id) == DictGet(w.user_states, user_id)

\* faulty variant of clear_state: the stash is left in place
clear_state_keep_data(w, user_id) ==
    [w EXCEPT !.user_states = DictPop(@, user_id)]

\* faulty variant of clear_state: both dicts are emptied
clear_state_everyone(w, user_id) ==
    [w EXCEPT !.user_states = EmptyDict, !.user_data = EmptyDict]

clear_state(w, user_id) ==
    [w EXCEPT !.user_states = DictPop(@, user_id),
              !.user_data = DictPop(@, user_id)]

set_data(w, user_id, key, value) ==
    LET d == IF user_id \in DOMAIN w.user_data THEN w.user_data[user_id]
             ELSE EmptyDict
    IN  [w EXCEPT !.user_data = DictSet(@, user_id, DictSet(d, key, value))]

\* faulty variant of get_data: the default is ignored
get_data_no_default(w, user_id, key, default) ==
    LET d == IF user_id \in DOMAIN w.user_data THEN w.user_data[user_id]
             ELSE EmptyDict
    IN  IF key \in DOMAIN d THEN Some(d[key]) ELSE None

\* default and result are optional values: None or Some(v)
get_data(w, user_id, key, default) ==
    LET d == IF user_id \in DOMAIN w.user_data THEN w.user_data[user_id]
             ELSE EmptyDict
    IN  IF key \in DOMAIN d THEN Some(d[key]) ELSE default

(***************************************************************************)
(* class OrderManager, each method as one uninterrupted call               *)
(***************************************************************************)
\* faulty variant of create_order: the counter is left as it was
create_order_same_counter(w, user_id, user_name, bot_idea, bot_token, now) ==
    LET order_id == FormatOrderId(w.order_counter)
        order == Order(user_id, user_name, order_id, bot_idea, bot_token, now)
    IN  [w |-> [w EXCEPT !.orders = OrdSet(@, order_id, order)],
         order_id |-> order_id]
\* returns the new stores and the order's key in them
create_order(w, user_id, user_name, bot_idea, bot_token, now) ==
    LET order_id == FormatOrderId(w.order_counter)
        order == Order(user_id, user_name, order_id, bot_idea, bot_token, now)
    IN  [w |-> [w EXCEPT !.orders = OrdSet(@, order_id, order),
                         !.order_counter = @ + 1],
         order_id |-> order_id]

get_order(w, order_id) == OrdGet(w.orders, order_id)

\* faulty variant of get_user_orders: no filter on the user
get_user_orders_all(w, user_id) == OrdValues(w.orders)
get_user_orders(w, user_id) ==
    SelectSeq(OrdValues(w.orders), LAMBDA o : o.user_id = user_id)

get_all_orders(w) == OrdValues(w.orders)

\* order.<field> = value on the record stored under order_id
\* faulty variant of SetField: the write also blanks the order's token
SetFieldBlankToken(w, order_id, field, value) ==
    LET o == OrdGet(w.orders, order_id)[1]
    IN  [w EXCEPT !.orders = OrdSet(@, order_id,
                     [o EXCEPT ![field] = value, !.bot_token = <<>>])]
SetField(w, order_id, field, value) ==
    LET o == OrdGet(w.orders, order_id)[1]
    IN  [w EXCEPT !.orders = OrdSet(@, order_id, [o EXCEPT ![field] = value])]

\* faulty variant of StatusWrites: every completion writes the timestamp
StatusWritesStampAlways(w, order_id, status, notes, now) ==
    LET w1 == SetField(w, order_id, "status", status)
        w2 == IF notes # <<>> THEN SetField(w1, order_id, "admin_notes", notes)
              ELSE w1
    IN  IF status = COMPLETED
        THEN SetField(w2, order_id, "completed_at", Some(now))
        ELSE w2
\* faulty variant of StatusWrites: a completed or cancelled order keeps its
\* status
StatusWritesFinalKept(w, order_id, status, notes, now) ==
    LET o == OrdGet(w.orders, order_id)[1]
        w1 == IF o.status \in {COMPLETED, CANCELLED} THEN w
              ELSE SetField(w, order_id, "status", status)
        w2 == IF notes # <<>> THEN SetField(w1, order_id, "admin_notes", notes)
              ELSE w1
        o2 == OrdGet(w2.orders, order_id)[1]
    IN  IF status = COMPLETED /\ o2.completed_at = None
        THEN SetField(w2, order_id, "completed_at", Some(now))
        ELSE w2
\* faulty variant of StatusWrites: the timestamp is never written
StatusWritesNoStamp(w, order_id, status, notes, now) ==
    LET w1 == SetField(w, order_id, "status", status)
    IN  IF notes # <<>> THEN SetField(w1, order_id, "admin_notes", notes) ELSE w1
\* lines 135-140: the writes of update_order_status to an order it found
StatusWrites(w, order_id, status, notes, now) ==
    LET w1 == SetField(w, order_id, "status", status)
        w2 == IF notes # <<>> THEN SetField(w1, order_id, "admin_notes", notes)
              ELSE w1
        o2 == OrdGet(w2.orders, order_id)[1]
    IN  IF status = COMPLETED /\ o2.completed_at = None
        THEN SetField(w2, order_id, "completed_at", Some(now))
        ELSE w2

\* returns [w, ret]
\* faulty variant of update_order_status: True also for a missing order
update_order_status_true(w, order_id, status, notes, now) ==
    IF get_order(w, order_id) # None
    THEN [w |-> StatusWrites(w, order_id, status, notes, now), ret |-> TRUE]
    ELSE [w |-> w, ret |-> TRUE]
update_order_status(w, order_id, status, notes, now) ==
    IF get_order(w, order_id) # None
    THEN [w |-> StatusWrites(w, order_id, status, notes, now), ret |-> TRUE]
    ELSE [w |-> w, ret |-> FALSE]

\* price, time, notes: None or Some(string); an empty string is falsy
\* faulty variant of Truthy: an empty string counts as given
TruthyNotNone(opt) == opt # None
Truthy(opt) == opt # None /\ opt[1] # <<>>

update_order_details(w, order_id, price, time, notes) ==
    IF get_order(w, order_id) # None
    THEN LET w1 == IF Truthy(price)
                   THEN SetField(w, order_id, "estimated_price", price[1]) ELSE w
             w2 == IF Truthy(time)
                   THEN SetField(w1, order_id, "estimated_time", time[1]) ELSE w1
             w3 == IF Truthy(notes)
                   THEN SetField(w2, order_id, "admin_notes", notes[1]) ELSE w2
         IN  [w |-> w3, ret |-> TRUE]
    ELSE [w |-> w, ret |-> FALSE]

\* str.split()[0]: the first run of non-blank characters, None when the
\* string has none (IndexError)
RECURSIVE TakeWord(_)
TakeWord(s) ==
    IF s = <<>> \/ Head(s) \in Whitespace THEN <<>>
    ELSE <<Head(s)>> \o TakeWord(Tail(s))

FirstWord(s) ==
    LET t == lstrip(s)
    IN  IF t = <<>> THEN None ELSE Some(TakeWord(t))

\* lines 170-173 inside try/except: int(price_str.replace(',', '')), None
\* when the conversion raises (no first word, or a word that is not an
\* optional sign followed by digits)
PriceNum(price) ==
    LET word == FirstWord(price)
    IN  IF word = None THEN None
        ELSE LET literal == replace(word[1], ",")
                 signed == literal # <<>> /\ Head(literal) \in {"+", "-"}
                 digits == IF signed THEN Tail(literal) ELSE literal
             IN  IF ~isdigit(digits) THEN None
                 ELSE IF signed /\ Head(literal) = "-"
                 THEN Some(0 - ParseInt(digits))
                 ELSE Some(ParseInt(digits))

\* lines 166-178: the sum of the prices that are set and can be read
RECURSIVE Revenue(_)
Revenue(os) ==
    IF os = <<>> THEN 0
    ELSE LET o == Head(os)
             n == IF o.estimated_price # PLACEHOLDER
                     /\ PriceNum(o.estimated_price) # None
                  THEN PriceNum(o.estimated_price)[1] ELSE 0
         IN  n + Revenue(Tail(os))

\* faulty variant of CountStatus: the orders of every other status
CountStatusOthers(w, status) ==
    Len(SelectSeq(OrdValues(w.orders), LAMBDA o : o.status # status))
\* lines 160-162: len([o for o in self.orders.values() if o.status == status])
CountStatus(w, status) ==
    Len(SelectSeq(OrdValues(w.orders), LAMBDA o : o.status = status))

\* faulty variant of get_stats: the two revenue figures are exchanged
get_stats_exchanged(w) ==
    [total |-> Len(w.orders),
     pending |-> CountStatus(w, PENDING),
     processing |-> CountStatus(w, PROCESSING),
     completed |-> CountStatus(w, COMPLETED),
     estimated_revenue |->
         Revenue(SelectSeq(OrdValues(w.orders), LAMBDA o : o.status = COMPLETED)),
     completed_revenue |-> Revenue(OrdValues(w.orders))]
\* lines 158-204; the figures of the current day are today_stats
get_stats(w) ==
    [total |-> Len(w.orders),
     pending |-> CountStatus(w, PENDING),
     processing |-> CountStatus(w, PROCESSING),
     completed |-> CountStatus(w, COMPLETED),
     estimated_revenue |-> Revenue(OrdValues(w.orders)),
     completed_revenue |->
         Revenue(SelectSeq(OrdValues(w.orders), LAMBDA o : o.status = COMPLETED))]

\* strftime('%Y-%m-%d') of a clock reading, the clock counting seconds: the
\* number of the day
SecondsPerDay == 86400
Date(t) == t \div SecondsPerDay

\* lines 182-193 and 202-203: the figures of the current day.  created_at
\* has the form '%Y-%m-%d %H:%M:%S', so it starts with today's date exactly
\* when it was read on the same day
today_stats(w, now) ==
    LET today == Date(now)
        today_orders == SelectSeq(OrdValues(w.orders),
                                  LAMBDA o : Date(o.created_at) = today)
    IN  [today_orders |-> Len(today_orders),
         today_revenue |-> Revenue(today_orders)]

\* faulty variant of is_admin: every user passes
is_admin_anyone(user_id) == TRUE
is_admin(user_id) == user_id \in ADMIN_IDS

(***************************************************************************)
(* Who the users are (message.from_user): user 1 has no last name.          *)
(***************************************************************************)
first_name(u) == IF u = 1 THEN <<"A">> ELSE <<"B">>
last_name(u) == IF u = 1 THEN None ELSE Some(<<"C">>)

\* lines 882-884
FullName(u) ==
    IF last_name(u) # None THEN first_name(u) \o <<" ">> \o last_name(u)[1]
    ELSE first_name(u)

\* the handle getMe resolves a token to
BotHandle == <<"x", "_", "b", "o", "t">>

\* f"{price:,}": the digits of n in groups of three separated by commas
RECURSIVE Group3(_)
Group3(d) ==
    IF Len(d) <= 3 THEN d
    ELSE Group3(SubSeq(d, 1, Len(d) - 3)) \o <<",">> \o SubSeq(d, Len(d) - 2, Len(d))

\* faulty variant of FormatThousands: the groups are separated by blanks
FormatThousandsBlanks(n) ==
    [i \in 1..Len(Group3(Digits(n))) |->
        IF Group3(Digits(n))[i] = "," THEN " " ELSE Group3(Digits(n))[i]]
\* f"{price:,}" (lines 1016, 1023)
FormatThousands(n) == Group3(Digits(n))

\* f"{price:,} toman" (line 1016)
FormatPrice(n) == FormatThousands(n) \o <<" ", TOMAN>>

(***************************************************************************)
(* Outcomes of the outbound platform calls of one handler run:             *)
(*   ok          every call succeeds (getMe answers ok=true)               *)
(*   rejected    getMe answers ok=false                                    *)
(*   error       requests.get raises RequestException                      *)
(*   send_failed getMe answers ok=true, and the first send_message after   *)
(*               the stores were written that no try/except guards raises  *)
(* A call that raises before the handler has touched a store leaves the    *)
(* state as it was and is therefore not a separate outcome.                *)
(***************************************************************************)
NetOutcomes == {"ok", "rejected", "error", "send_failed"}

(***************************************************************************)
(* handle_start: /start, /help, /support                                   *)
(***************************************************************************)
handle_start(w, u) == clear_state(w, u)

(***************************************************************************)
(* handle_my_orders: /myorders reads get_user_orders and sends a message   *)
(***************************************************************************)
\* faulty variant of handle_my_orders: the conversation is reset, as
\* handle_start does
handle_my_orders_resets(w, u) == clear_state(w, u)
handle_my_orders(w, u) == w

(***************************************************************************)
(* handle_callback.  data is the callback data: one atom, or a prefix atom  *)
(* followed by the characters of an order id.  The branches are tested in  *)
(* the order of the source.                                                *)
(***************************************************************************)
\* lines 543-567 and 569-593: the status is written, the owner notified,
\* the message deleted, and handle_callback calls itself with the same
\* call, which takes the same branch again.
StatusCallback(w, order_id, status, now) ==
    LET r1 == update_order_status(w, order_id, status, <<>>, now)
    IN  IF r1.ret
        THEN update_order_status(r1.w, order_id, status, <<>>, now).w
        ELSE r1.w

\* lines 377-384, 543-567 and 569-593 as one run of the handler for a status
\* click, with what it does counted.  The handler writes the status (547,
\* 573), sends the owner a notification (553, 579), deletes the message of
\* the button (566, 592) and calls itself with the same call (567, 593),
\* whose data is unchanged, so the nested run takes the same branch.  deletes
\* is the outcome of the delete_message calls: "ok" when each of them
\* succeeds, "gone" when the platform refuses to delete the message a second
\* time and the call raises.  depth is the nesting of the run; a run nested
\* deeper than RecursionLimit raises RecursionError.  Returns the stores,
\* the number of update_order_status calls that returned True, the number of
\* notifications sent to the owner, and how the run ended.
RECURSIVE StatusClick(_, _, _, _, _, _)
StatusClick(w, order_id, status, now, deletes, depth) ==
    IF depth > RecursionLimit
    THEN [w |-> w, applied |-> 0, notified |-> 0, ended |-> "RecursionError"]
    ELSE LET r == update_order_status(w, order_id, status, <<>>, now)
         IN  IF ~r.ret
             THEN [w |-> r.w, applied |-> 0, notified |-> 0, ended |-> "returned"]
             ELSE IF deletes = "gone" /\ depth > 1
             THEN [w |-> r.w, applied |-> 1, notified |-> 1,
                   ended |-> "ApiTelegramException"]
             ELSE LET n == StatusClick(r.w, order_id, status, now, deletes,
                                       depth + 1)
                  IN  [w |-> n.w, applied |-> 1 + n.applied,
                       notified |-> 1 + n.notified, ended |-> n.ended]

DeleteOutcomes == {"ok", "gone"}

\* faulty variant of order_bot: the idea step is skipped
order_bot_to_token(w, u) == set_state(w, u, WAITING_FOR_TOKEN)
order_bot(w, u) == set_state(w, u, WAITING_FOR_IDEA)

\* faulty variant of main_menu: nothing is cleared
main_menu_noop(w, u) == w
main_menu(w, u) == clear_state(w, u)

handle_callback(w, u, data, now) ==
    IF data = <<"order_bot">> THEN order_bot(w, u)
    ELSE IF data = <<"admin_panel">> THEN w
    ELSE IF data = <<"admin_stats">> THEN w
    ELSE IF data = <<"admin_new_orders">> THEN w
    ELSE IF startswith(data, "view_order_") THEN w
    ELSE IF startswith(data, "status_processing_")
    THEN IF is_admin(u)
         THEN StatusCallback(w, replace(data, "status_processing_"), PROCESSING, now)
         ELSE w
    ELSE IF startswith(data, "status_completed_")
    THEN IF is_admin(u)
         THEN StatusCallback(w, replace(data, "status_completed_"), COMPLETED, now)
         ELSE w
    ELSE IF startswith(data, "set_price_")
    THEN IF is_admin(u)
         THEN set_state(w, u, <<SETTING_PRICE>> \o replace(data, "set_price_"))
         ELSE w
    ELSE IF startswith(data, "add_note_")
    THEN IF is_admin(u)
         THEN set_state(w, u, <<ADDING_NOTE>> \o replace(data, "add_note_"))
         ELSE w
    ELSE IF data = <<"admin_processing">> THEN w
    ELSE IF data = <<"admin_completed">> THEN w
    ELSE IF data = <<"support">> THEN w
    ELSE IF data = <<"my_orders">> THEN w
    ELSE IF data = <<"help">> THEN w
    ELSE IF data = <<"main_menu">> THEN main_menu(w, u)
    ELSE w

(***************************************************************************)
(* handle_text_message                                                     *)
(***************************************************************************)
\* line 801
\* faulty variant of IdeaTooShort: the length of the text as sent
IdeaTooShortRaw(text) == Len(text) < MinIdeaLen
IdeaTooShort(text) == Len(strip(text)) < MinIdeaLen

\* line 847, on the stripped token
\* faulty variant of TokenShapeBad: both defects needed to reject
TokenShapeBadAnd(token) == ~Contains(token, ":") /\ Len(token) < MinTokenLen
TokenShapeBad(token) == ~Contains(token, ":") \/ Len(token) < MinTokenLen

\* lines 799-840
\* faulty variant of IdeaBranch: the idea is not stashed
IdeaBranchNoStash(w, u, text) ==
    IF IdeaTooShort(text) THEN w
    ELSE set_state(w, u, WAITING_FOR_TOKEN)
\* faulty variant of IdeaBranch: an idea already stashed is kept
IdeaBranchKeepsFirst(w, u, text) ==
    IF IdeaTooShort(text) THEN w
    ELSE IF get_data(w, u, BOT_IDEA, None) # None
    THEN set_state(w, u, WAITING_FOR_TOKEN)
    ELSE set_state(set_data(w, u, BOT_IDEA, text), u, WAITING_FOR_TOKEN)
IdeaBranch(w, u, text) ==
    IF IdeaTooShort(text) THEN w
    ELSE set_state(set_data(w, u, BOT_IDEA, text), u, WAITING_FOR_TOKEN)

\* lines 876-972: getMe answered ok=true
TokenAccepted(w, u, token, net, now) ==
    LET bot_idea == get_data(w, u, BOT_IDEA, None)
        r == create_order(w, u, FullName(u), bot_idea, token, now)
        w1 == SetField(r.w, r.order_id, "bot_username", Some(BotHandle))
    IN  \* bot_idea[:150] raises on None; the send at line 925 is unguarded
        IF bot_idea = None \/ net = "send_failed" THEN w1
        ELSE clear_state(w1, u)

\* lines 842-1007
\* faulty variant of TokenBranch: the answer of getMe is ignored
TokenBranchNoPlatform(w, u, text, net, now) ==
    IF TokenShapeBad(strip(text)) THEN w
    ELSE TokenAccepted(w, u, strip(text), net, now)
\* faulty variant of TokenBranch: a failed request ends the conversation
TokenBranchErrorClears(w, u, text, net, now) ==
    LET token == strip(text)
    IN  IF TokenShapeBad(token) THEN w
        ELSE IF net \in {"ok", "send_failed"} THEN TokenAccepted(w, u, token, net, now)
        ELSE IF net = "error" THEN clear_state(w, u)
        ELSE w
TokenBranch(w, u, text, net, now) ==
    LET token == strip(text)
    IN  IF TokenShapeBad(token) THEN w
        ELSE IF net \in {"ok", "send_failed"} THEN TokenAccepted(w, u, token, net, now)
        ELSE w

\* faulty variant of PriceBranch: the price entry resets the order to PENDING
PriceBranchToPending(w, u, current_state, text, net, now) ==
    IF is_admin(u)
    THEN LET order_id == replace(current_state, SETTING_PRICE)
         IN  IF isdigit(text)
             THEN LET price == ParseInt(text)
                      w1 == update_order_details(w, order_id, Some(FormatPrice(price)),
                                                 None, None).w
                      w2 == update_order_status(w1, order_id, PENDING, <<>>, now).w
                  IN  IF net = "send_failed" THEN w2 ELSE clear_state(w2, u)
             ELSE w
    ELSE w
\* lines 1009-1052
PriceBranch(w, u, current_state, text, net, now) ==
    IF is_admin(u)
    THEN LET order_id == replace(current_state, SETTING_PRICE)
         IN  IF isdigit(text)
             THEN LET price == ParseInt(text)
                      w1 == update_order_details(w, order_id,
                                Some(FormatPrice(price)), None, None).w
                      w2 == update_order_status(w1, order_id, PROCESSING, <<>>, now).w
                  IN  \* the send at line 1021 is unguarded
                      IF net = "send_failed" THEN w2 ELSE clear_state(w2, u)
             ELSE w
    ELSE w

\* lines 1054-1090
NoteBranch(w, u, current_state, text, net) ==
    IF is_admin(u)
    THEN LET order_id == replace(current_state, ADDING_NOTE)
             note == strip(text)
         IN  IF note # <<>>
             THEN IF get_order(w, order_id) # None
                  THEN LET w1 == SetField(w, order_id, "admin_notes", note)
                       IN  \* the send at line 1064 is unguarded
                           IF net = "send_failed" THEN w1 ELSE clear_state(w1, u)
                  ELSE clear_state(w, u)
             ELSE w
    ELSE w

handle_text_message(w, u, text, net, now) ==
    LET current_state == get_state(w, u)
    IN  IF current_state = Some(WAITING_FOR_IDEA) THEN IdeaBranch(w, u, text)
        ELSE IF current_state = Some(WAITING_FOR_TOKEN)
        THEN TokenBranch(w, u, text, net, now)
        ELSE IF current_state # None /\ startswith(current_state[1], SETTING_PRICE)
        THEN PriceBranch(w, u, current_state[1], text, net, now)
        ELSE IF current_state # None /\ startswith(current_state[1], ADDING_NOTE)
        THEN NoteBranch(w, u, current_state[1], text, net)
        ELSE w

\* the number of getMe requests (line 873) a run of handle_text_message
\* makes: one in the token branch once the shape test is passed; the request
\* is in no loop and the handler of its failure (993-1007) sends no other
GetMeRequests(w, u, text) ==
    IF get_state(w, u) = Some(WAITING_FOR_TOKEN) /\ ~TokenShapeBad(strip(text))
    THEN 1 ELSE 0

\* the number of bot.send_message(ADMIN_ID, ...) calls (line 948) a run of
\* handle_text_message makes after create_order: the call is reached when
\* the confirmation send at line 925 has returned and ADMIN_ID is not 0
\* (line 930); it is the only send of the branch addressed to an
\* administrator
AdminNotifications(w, u, text, net) ==
    IF /\ get_state(w, u) = Some(WAITING_FOR_TOKEN)
       /\ ~TokenShapeBad(strip(text))
       /\ net = "ok"
       /\ get_data(w, u, BOT_IDEA, None) # None
       /\ ADMIN_ID # 0
    THEN 1 ELSE 0

\* whether the run of handle_text_message made the platform calls whose
\* outcome is net: the outcome recorded for the event is "none" otherwise
UsesNet(w, u, text) ==
    LET cs == get_state(w, u)
    IN  \/ cs = Some(WAITING_FOR_TOKEN) /\ ~TokenShapeBad(strip(text))
        \/ /\ cs # None /\ cs # Some(WAITING_FOR_IDEA) /\ cs # Some(WAITING_FOR_TOKEN)
           /\ startswith(cs[1], SETTING_PRICE) /\ is_admin(u) /\ isdigit(text)
        \/ /\ cs # None /\ cs # Some(WAITING_FOR_IDEA) /\ cs # Some(WAITING_FOR_TOKEN)
           /\ ~startswith(cs[1], SETTING_PRICE) /\ startswith(cs[1], ADDING_NOTE)
           /\ is_admin(u) /\ strip(text) # <<>>
           /\ get_order(w, replace(cs[1], ADDING_NOTE)) # None

(***************************************************************************)
(* Inputs of the exploration.                                              *)
(***************************************************************************)
T_blank == <<" ", " ">>
\* 9 characters between blanks: long enough only if not stripped
T_short == <<" ">> \o Rep("a", MinIdeaLen - 1) \o <<" ">>
\* exactly 10 characters, no colon
T_idea == Rep("a", MinIdeaLen)
\* 19 characters with a colon, between blanks
T_tok19 == <<" ">> \o Rep("1", 9) \o <<":">> \o Rep("A", MinTokenLen - 11) \o <<" ">>
\* 20 characters with a colon, after a blank
T_tok20 == <<" ">> \o Rep("1", 10) \o <<":">> \o Rep("A", MinTokenLen - 11)
\* 20 characters, no colon
T_nocolon == Rep("b", MinTokenLen)
T_digits == <<"1", "5", "0", "0", "0", "0">>

\* the texts a user sends, by the label the user is under
TextsFor(w, u) ==
    LET cs == get_state(w, u)
    IN  IF cs = Some(WAITING_FOR_IDEA) THEN {T_blank, T_short, T_idea, T_tok20}
        ELSE IF cs = Some(WAITING_FOR_TOKEN)
        THEN {T_idea, T_tok19, T_nocolon, T_tok20}
        ELSE IF cs # None THEN {T_blank, T_idea, T_digits}
        ELSE {T_idea}

\* order ids an admin button may carry: the first id and one never issued
FirstId == FormatOrderId(1)
BogusId == <<"O", "R", "D", "x">>

Commands == {"/start", "/help", "/support"}

CallbackData ==
    {<<"order_bot">>, <<"main_menu">>, <<"my_orders">>,
     <<"set_price_">> \o FirstId, <<"add_note_">> \o BogusId,
     <<"status_completed_">> \o FirstId}

\* an event: the handler or method run, the acting user, the input, the
\* outcome of the platform calls, the value returned, and the user's label
\* before the event
Event(op, u, arg, net, ret, was) ==
    [op |-> op, user |-> u, arg |-> arg, net |-> net, ret |-> ret, was |-> was]

NoEvent == Event("init", 0, <<>>, "none", <<>>, None)

Init ==
    /\ user_states = EmptyDict
    /\ user_data = EmptyDict
    /\ orders = <<>>
    /\ order_counter = 1
    /\ lock = 0
    /\ clock = 0
    /\ pc = [t \in Threads |-> "idle"]
    /\ frame = [t \in Threads |-> <<>>]
    /\ alloc = <<>>
    /\ returned = <<>>
    /\ calls = 0
    /\ conv_idea = [u \in Users |-> None]
    /\ flows = [u \in Users |-> 0]
    /\ conv_orders = [u \in Users |-> 0]
    /\ session = [b \in Browsers |-> FALSE]
    /\ entered = EmptyDict
    /\ accepted = [u \in Users |-> <<>>]
    /\ last = NoEvent

threadVars == <<lock, pc, frame, alloc, returned, calls>>

\* a thread moves to a line
Goto(t, line) == pc' = [pc EXCEPT ![t] = line]

InIntake(w, u) == get_state(w, u) \in {Some(WAITING_FOR_IDEA), Some(WAITING_FOR_TOKEN)}

\* history: the idea text the user supplied in the conversation in progress.
\* A conversation starts with the start-order button and lasts while the
\* user's label is one of the two intake labels; an idea counts when it was sent under waiting_for_idea and has at
\* least 10 characters after stripping.
ConvNext(w, w2, u, op, text) ==
    [conv_idea EXCEPT ![u] =
        IF ~InIntake(w2, u) \/ (op = "callback" /\ text = <<"order_bot">>) THEN None
        ELSE IF op = "text" /\ get_state(w, u) = Some(WAITING_FOR_IDEA)
                /\ Len(strip(text)) >= 10
        THEN Some(text)
        ELSE @]

\* history: how often the user, having supplied an idea in the conversation,
\* sent under waiting_for_token a text of token shape that the platform
\* accepted
FlowsNext(w, u, text, net) ==
    [flows EXCEPT ![u] =
        IF /\ conv_idea[u] # None
           /\ get_state(w, u) = Some(WAITING_FOR_TOKEN)
           /\ Contains(strip(text), ":") /\ Len(strip(text)) >= 20
           /\ net \in {"ok", "send_failed"}
        THEN @ + 1 ELSE @]

\* history: the integer an administrator entered as the price of a stored
\* order (lines 1014-1016), by order id
EnteredNext(w, u, text) ==
    LET cs == get_state(w, u)
    IN  IF /\ cs # None /\ cs # Some(WAITING_FOR_IDEA) /\ cs # Some(WAITING_FOR_TOKEN)
           /\ startswith(cs[1], SETTING_PRICE) /\ is_admin(u) /\ isdigit(text)
           /\ get_order(w, replace(cs[1], SETTING_PRICE)) # None
        THEN DictSet(entered, replace(cs[1], SETTING_PRICE), ParseInt(text))
        ELSE entered

\* the stores after a handler run
Commit(w2) ==
    /\ user_states' = w2.user_states
    /\ user_data' = w2.user_data
    /\ orders' = w2.orders
    /\ order_counter' = w2.order_counter

\* the outcomes the platform calls of a run can have
NetFor(w, u, text) == IF UsesNet(w, u, text) THEN NetOutcomes ELSE {"none"}

(***************************************************************************)
(* One action per handler; each is the handler's whole run.                *)
(***************************************************************************)
HandleStart(u, cmd) ==
    LET w2 == handle_start(World, u)
    IN  /\ Commit(w2)
        /\ conv_idea' = ConvNext(World, w2, u, "command", <<>>)
        /\ last' = Event("command", u, <<cmd>>, "none", <<>>, get_state(World, u))
        /\ UNCHANGED <<clock, flows, threadVars, conv_orders, session, entered, accepted>>

HandleMyOrders(u) ==
    LET w2 == handle_my_orders(World, u)
    IN  /\ Commit(w2)
        /\ conv_idea' = ConvNext(World, w2, u, "command", <<>>)
        /\ last' = Event("command", u, <<"/myorders">>, "none", <<>>,
                          get_state(World, u))
        /\ UNCHANGED <<clock, flows, threadVars, conv_orders, session, entered, accepted>>

\* datetime.now() reads clock; the clock stands still in Spec and advances
\* in SpecOrders
HandleCallback(u, data) ==
    LET w2 == handle_callback(World, u, data, clock)
    IN  /\ Commit(w2)
        /\ conv_idea' = ConvNext(World, w2, u, "callback", data)
        /\ last' = Event("callback", u, data, "none", <<>>, get_state(World, u))
        /\ UNCHANGED <<clock, flows, threadVars, conv_orders, session, entered, accepted>>

HandleTextMessage(u, text, net) ==
    LET w2 == handle_text_message(World, u, text, net, clock)
    IN  /\ Len(w2.orders) <= MaxOrders
        /\ Commit(w2)
        /\ conv_idea' = ConvNext(World, w2, u, "text", text)
        /\ flows' = FlowsNext(World, u, text, net)
        /\ entered' = EnteredNext(World, u, text)
        /\ last' = Event("text", u, text, net, <<>>, get_state(World, u))
        /\ UNCHANGED <<clock, threadVars, conv_orders, session, accepted>>

Next ==
    \/ \E u \in Users, cmd \in Commands : HandleStart(u, cmd)
    \/ \E u \in Users : HandleMyOrders(u)
    \/ \E u \in Users, data \in CallbackData : HandleCallback(u, data)
    \/ \E u \in Users :
         \E text \in TextsFor(World, u) :
           \E net \in NetFor(World, u, text) :
             HandleTextMessage(u, text, net)

Spec == Init /\ [][Next]_vars

(***************************************************************************)
(* SpecState: the UserState methods called directly, in any order.         *)
(***************************************************************************)
Labels == {WAITING_FOR_IDEA, WAITING_FOR_TOKEN, <<SETTING_PRICE>> \o FirstId}
DataKeys == {BOT_IDEA, "draft"}
DataValues == {T_idea, T_tok20}
Defaults == {None, Some(T_short)}

CallSetState(u, state) ==
    /\ Commit(set_state(World, u, state))
    /\ last' = Event("set_state", u, state, "none", <<>>, get_state(World, u))
    /\ UNCHANGED <<clock, conv_idea, flows, threadVars, conv_orders, session, entered, accepted>>

CallClearState(u) ==
    /\ Commit(clear_state(World, u))
    /\ last' = Event("clear_state", u, <<>>, "none",
                     <<u \in DOMAIN user_states, u \in DOMAIN user_data>>,
                     get_state(World, u))
    /\ UNCHANGED <<clock, conv_idea, flows, threadVars, conv_orders, session, entered, accepted>>

CallSetData(u, key, value) ==
    /\ Commit(set_data(World, u, key, value))
    /\ last' = Event("set_data", u, <<key>>, "none", <<>>, get_state(World, u))
    /\ UNCHANGED <<clock, conv_idea, flows, threadVars, conv_orders, session, entered, accepted>>

CallGetState(u) ==
    /\ last' = Event("get_state", u, <<>>, "none", get_state(World, u),
                     get_state(World, u))
    /\ UNCHANGED <<user_states, user_data, orders, order_counter, clock,
                   conv_idea, flows, threadVars, conv_orders, session, entered, accepted>>

CallGetData(u, key, default) ==
    /\ last' = Event("get_data", u, <<key>>, "none",
                     get_data(World, u, key, default), get_state(World, u))
    /\ UNCHANGED <<user_states, user_data, orders, order_counter, clock,
                   conv_idea, flows, threadVars, conv_orders, session, entered, accepted>>

NextState ==
    \/ \E u \in Users, state \in Labels : CallSetState(u, state)
    \/ \E u \in Users : CallClearState(u)
    \/ \E u \in Users, key \in DataKeys, value \in DataValues :
           CallSetData(u, key, value)
    \/ \E u \in Users : CallGetState(u)
    \/ \E u \in Users, key \in DataKeys, default \in Defaults :
           CallGetData(u, key, default)

SpecState == Init /\ [][NextState]_vars

(***************************************************************************)
(* SpecOrders: the OrderManager methods called directly, one at a time.    *)
(***************************************************************************)
ApiIds == {FormatOrderId(n) : n \in 1..MaxApiOrders} \cup {BogusId}
Note1 == <<"n">>
Price1 == FormatPrice(150000)
Time1 == <<"3", "d">>
NotesArgs == {<<>>, Note1}
DetailArgs(v) == {None, Some(<<>>), Some(v)}
\* the argument triples (price, time, notes) of the update_order_details
\* calls made: nothing given, empty strings, and each subset that is set
\* together by a caller
DetailCalls ==
    {<<None, None, None>>, <<Some(<<>>), Some(<<>>), Some(<<>>)>>,
     <<Some(Price1), Some(Time1), None>>, <<None, None, Some(Note1)>>}

\* datetime.now() is read by Order.__post_init__ (line 58) and by
\* update_order_status (line 140); a call is made at an instant later than
\* every timestamp in the store, so that a timestamp written twice would
\* show.  clock is the latest instant written.
Readings == {clock + 1}

\* line 139: whether update_order_status reads the clock
ReadsClock(w, order_id, status) ==
    /\ get_order(w, order_id) # None
    /\ status = COMPLETED
    /\ get_order(w, order_id)[1].completed_at = None

CallCreateOrder(u, now) ==
    LET r == create_order(World, u, FullName(u), Some(T_idea), strip(T_tok20), now)
    IN  /\ Len(orders) < MaxApiOrders
        /\ Commit(r.w)
        /\ clock' = now
        /\ last' = Event("create_order", u, r.order_id, "none", <<>>, None)
        /\ UNCHANGED <<conv_idea, flows, threadVars, conv_orders, session, entered, accepted>>

CallUpdateStatus(order_id, status, notes, now) ==
    LET r == update_order_status(World, order_id, status, notes, now)
        o == get_order(World, order_id)
    IN  /\ Commit(r.w)
        /\ clock' = IF ReadsClock(World, order_id, status) THEN now ELSE clock
        /\ last' = Event("update_order_status", 0, order_id, "none", <<r.ret>>,
                         IF o = None THEN None ELSE Some(<<o[1].status>>))
        /\ UNCHANGED <<conv_idea, flows, threadVars, conv_orders, session, entered, accepted>>

CallUpdateDetails(order_id, price, time, notes) ==
    LET r == update_order_details(World, order_id, price, time, notes)
    IN  /\ Commit(r.w)
        /\ last' = Event("update_order_details", 0, order_id, "none", <<r.ret>>, None)
        /\ UNCHANGED <<clock, conv_idea, flows, threadVars, conv_orders, session, entered, accepted>>

NextOrders ==
    \/ \E u \in Users, now \in Readings : CallCreateOrder(u, now)
    \/ \E order_id \in ApiIds, status \in OrderStatus, notes \in NotesArgs :
         \E now \in Readings :
           CallUpdateStatus(order_id, status, notes, now)
    \/ \E order_id \in ApiIds, d \in DetailCalls :
           CallUpdateDetails(order_id, d[1], d[2], d[3])

SpecOrders == Init /\ [][NextOrders]_vars

(***************************************************************************)
(* SpecLedger: several orders in the store.  Orders are created for either *)
(* user, their status is set, a price is set, and the statistics are read. *)
(* The clock stands still; returned records the ids in creation order.     *)
(***************************************************************************)
LedgerIds == {FormatOrderId(n) : n \in 1..MaxLedgerOrders}

LedgerCreate(u) ==
    LET r == create_order(World, u, FullName(u), Some(T_idea), strip(T_tok20), clock)
    IN  /\ Len(orders) < MaxLedgerOrders
        /\ Commit(r.w)
        /\ returned' = Append(returned, r.order_id)
        /\ last' = Event("create_order", u, r.order_id, "none", <<>>, None)
        /\ UNCHANGED <<clock, conv_idea, flows, lock, pc, frame, alloc, calls, conv_orders, session, entered, accepted>>

LedgerUpdateStatus(order_id, status) ==
    LET r == update_order_status(World, order_id, status, <<>>, clock)
    IN  /\ Commit(r.w)
        /\ last' = Event("update_order_status", 0, order_id, "none", <<r.ret>>, None)
        /\ UNCHANGED <<clock, conv_idea, flows, threadVars, conv_orders, session, entered, accepted>>

LedgerUpdateDetails(order_id) ==
    LET r == update_order_details(World, order_id, Some(Price1), None, None)
    IN  /\ Commit(r.w)
        /\ last' = Event("update_order_details", 0, order_id, "none", <<r.ret>>, None)
        /\ UNCHANGED <<clock, conv_idea, flows, threadVars, conv_orders, session, entered, accepted>>

LedgerGetStats ==
    /\ last' = Event("get_stats", 0, <<>>, "none",
                     <<get_stats(World).total, get_stats(World).pending,
                       get_stats(World).processing, get_stats(World).completed>>,
                     None)
    /\ UNCHANGED <<user_states, user_data, orders, order_counter, clock,
                   conv_idea, flows, threadVars, conv_orders, session, entered, accepted>>

LedgerGetUserOrders(u) ==
    /\ last' = Event("get_user_orders", u, <<>>, "none",
                     [i \in 1..Len(get_user_orders(World, u)) |->
                         get_user_orders(World, u)[i].order_id],
                     None)
    /\ UNCHANGED <<user_states, user_data, orders, order_counter, clock,
                   conv_idea, flows, threadVars, conv_orders, session, entered, accepted>>

NextLedger ==
    \/ \E u \in Users : LedgerCreate(u)
    \/ \E order_id \in LedgerIds, status \in OrderStatus :
           LedgerUpdateStatus(order_id, status)
    \/ \E order_id \in LedgerIds : LedgerUpdateDetails(order_id)
    \/ LedgerGetStats
    \/ \E u \in Users : LedgerGetUserOrders(u)

SpecLedger == Init /\ [][NextLedger]_vars

(***************************************************************************)
(* SpecLookup: the two stores are filled through their methods and read    *)
(* through their lookups, for ids and users that are present and for ids   *)
(* and users that are not.                                                 *)
(***************************************************************************)
LookupIds == LedgerIds \cup {BogusId}
LookupNames == {"get_state", "get_data", "get_order", "get_user_orders"}

CallGetOrder(order_id) ==
    /\ last' = Event("get_order", 0, order_id, "none",
                     IF get_order(World, order_id) = None THEN None
                     ELSE Some(get_order(World, order_id)[1].order_id),
                     None)
    /\ UNCHANGED <<user_states, user_data, orders, order_counter, clock,
                   conv_idea, flows, threadVars, conv_orders, session, entered, accepted>>

NextLookup ==
    \/ \E u \in Users, state \in Labels : CallSetState(u, state)
    \/ \E u \in Users : CallClearState(u)
    \/ \E u \in Users, value \in DataValues : CallSetData(u, BOT_IDEA, value)
    \/ \E u \in Users : LedgerCreate(u)
    \/ \E u \in Users : CallGetState(u)
    \/ \E u \in Users, key \in DataKeys, default \in Defaults :
           CallGetData(u, key, default)
    \/ \E order_id \in LookupIds : CallGetOrder(order_id)
    \/ \E u \in Users : LedgerGetUserOrders(u)

SpecLookup == Init /\ [][NextLookup]_vars

(***************************************************************************)
(* SpecWeb: the Flask routes.  /webhook receives the updates of the        *)
(* platform and hands them to the handlers; the /admin routes read the     *)
(* order store for a browser whose session has admin_logged_in set.        *)
(***************************************************************************)
ADMIN_PASSWORD == <<"p", "w">>
JSON_TYPE == "application/json"

\* telebot dispatches an update to the handler registered for it
process_new_updates(w, upd, net, now) ==
    IF upd.kind = "command" THEN handle_start(w, upd.user)
    ELSE IF upd.kind = "callback" THEN handle_callback(w, upd.user, upd.data, now)
    ELSE handle_text_message(w, upd.user, upd.data, net, now)

\* content_type: None when the request has no such header.  Returns the
\* stores, the response, and whether the update was dispatched
\* faulty variant of webhook: every body is dispatched
webhook_any_type(w, content_type, upd, net, now) ==
    [w |-> process_new_updates(w, upd, net, now), body |-> "OK", code |-> 200,
     dispatched |-> TRUE]
webhook(w, content_type, upd, net, now) ==
    IF content_type = Some(JSON_TYPE)
    THEN [w |-> process_new_updates(w, upd, net, now), body |-> "OK",
          code |-> 200, dispatched |-> TRUE]
    ELSE [w |-> w, body |-> "Bad Request", code |-> 400, dispatched |-> FALSE]

\* a response of an /admin route: a redirect to the login page, the login
\* page itself, or a page or document made from the orders
RedirectTo(endpoint) == [kind |-> "redirect", to |-> endpoint, orders |-> <<>>]
LoginPage == [kind |-> "login_page", to |-> "", orders |-> <<>>]
OrderData(os) == [kind |-> "data", to |-> "", orders |-> os]
NotFound == [kind |-> "not_found", to |-> "", orders |-> <<>>]

\* the view functions under @admin_required
AdminRoutes == {"admin_dashboard", "order_detail", "api_stats", "api_orders",
                "export_orders"}

view(w, route, order_id) ==
    IF route = "order_detail"
    THEN IF get_order(w, order_id) = None THEN NotFound
         ELSE OrderData(<<get_order(w, order_id)[1]>>)
    ELSE OrderData(get_all_orders(w))

\* lines 1521-1527; logged_in is session.get('admin_logged_in')
\* faulty variant of admin_required: the view is called for every session
admin_required_open(logged_in, w, route, order_id) == view(w, route, order_id)
admin_required(logged_in, w, route, order_id) ==
    IF ~logged_in THEN RedirectTo("admin_login")
    ELSE view(w, route, order_id)

\* lines 1564-1576; password: None when the form has no such field.
\* Returns the session flag and the response
admin_login(logged_in, method, password) ==
    IF method = "POST"
    THEN IF password = Some(ADMIN_PASSWORD)
         THEN [logged_in |-> TRUE, resp |-> RedirectTo("admin_dashboard")]
         ELSE [logged_in |-> logged_in, resp |-> LoginPage]
    ELSE [logged_in |-> logged_in, resp |-> LoginPage]

\* lines 1578-1582
admin_logout(logged_in) ==
    [logged_in |-> FALSE, resp |-> RedirectTo("admin_login")]

ContentTypes == {None, Some(JSON_TYPE), Some("application/json; charset=utf-8")}
Passwords == {None, Some(<<"p">>), Some(ADMIN_PASSWORD)}
Update(kind, u, data) == [kind |-> kind, user |-> u, data |-> data]
\* the updates posted: /start, the start-order button, an idea and a token
UpdatesOf(u) ==
    {Update("command", u, <<"/start">>), Update("callback", u, <<"order_bot">>),
     Update("text", u, T_idea), Update("text", u, T_tok20)}
\* the /admin requests made: each view, order_detail for a stored and for an
\* unknown id
AdminRequests ==
    {<<route, <<>>>> : route \in AdminRoutes \ {"order_detail"}}
        \cup {<<"order_detail", FirstId>>, <<"order_detail", BogusId>>}

WebEvent(op, who, arg, resp) ==
    [op |-> op, user |-> who, arg |-> arg, net |-> "none", ret |-> resp, was |-> None]

PostWebhook(content_type, upd, net) ==
    LET r == webhook(World, content_type, upd, net, clock)
    IN  /\ Len(r.w.orders) <= MaxOrders
        /\ Commit(r.w)
        /\ last' = [op |-> "webhook", user |-> upd.user,
                    arg |-> <<content_type, upd>>, net |-> net,
                    ret |-> [body |-> r.body, code |-> r.code,
                            dispatched |-> r.dispatched],
                    was |-> get_state(World, upd.user)]
        /\ entered' = IF r.dispatched /\ upd.kind = "text"
                       THEN EnteredNext(World, upd.user, upd.data) ELSE entered
        /\ UNCHANGED <<clock, conv_idea, flows, threadVars, conv_orders, session, accepted>>

RequestLogin(b, method, password) ==
    LET r == admin_login(session[b], method, password)
    IN  /\ session' = [session EXCEPT ![b] = r.logged_in]
        /\ last' = WebEvent("admin_login", b, <<method, password>>, r.resp)
        /\ UNCHANGED <<user_states, user_data, orders, order_counter, clock,
                       conv_idea, flows, threadVars, conv_orders, entered, accepted>>

RequestLogout(b) ==
    LET r == admin_logout(session[b])
    IN  /\ session' = [session EXCEPT ![b] = r.logged_in]
        /\ last' = WebEvent("admin_logout", b, <<>>, r.resp)
        /\ UNCHANGED <<user_states, user_data, orders, order_counter, clock,
                       conv_idea, flows, threadVars, conv_orders, entered, accepted>>

RequestAdmin(b, route, order_id) ==
    /\ last' = WebEvent(route, b, order_id,
                        admin_required(session[b], World, route, order_id))
    /\ UNCHANGED <<user_states, user_data, orders, order_counter, clock,
                   conv_idea, flows, threadVars, conv_orders, session, entered, accepted>>

NextWeb ==
    \/ \E content_type \in ContentTypes, u \in Users :
         \E upd \in UpdatesOf(u) :
           \E net \in (IF upd.kind = "text" THEN NetFor(World, u, upd.data)
                       ELSE {"none"}) :
             PostWebhook(content_type, upd, net)
    \/ \E b \in Browsers, method \in {"GET", "POST"}, password \in Passwords :
           RequestLogin(b, method, password)
    \/ \E b \in Browsers : RequestLogout(b)
    \/ \E b \in Browsers, q \in AdminRequests : RequestAdmin(b, q[1], q[2])

SpecWeb == Init /\ [][NextWeb]_vars

(***************************************************************************)
(* SpecRace: updates of one user handled by several threads at once, as    *)
(* the threaded TeleBot of line 227 does.  A handler is taken one access   *)
(* to the conversation store at a time; create_order, which holds the      *)
(* lock, is one step.  pc is the line of src/jfp.py the thread is about to *)
(* execute; frame holds the update and the handler's local variables.      *)
(***************************************************************************)
\* the user whose updates race: a user who is not an administrator
Senders == Users \ ADMIN_IDS

\* the updates handled: the two buttons of the intake dialogue, an idea
\* and a token
RaceUpdates(u) ==
    {Update("callback", u, <<"order_bot">>), Update("callback", u, <<"main_menu">>),
     Update("text", u, T_idea), Update("text", u, T_tok20)}

raceOther == <<lock, clock, alloc, returned, conv_idea, flows, session, entered, accepted, last>>

Local(t, name, value) ==
    frame' = [frame EXCEPT ![t] = [k \in DOMAIN @ \cup {name} |->
                                      IF k = name THEN value ELSE @[k]]]

\* a thread takes an update and enters its handler
Receive(t, upd) ==
    /\ pc[t] = "idle"
    /\ calls < MaxRuns
    /\ calls' = calls + 1
    /\ frame' = [frame EXCEPT ![t] = [upd |-> upd]]
    /\ Goto(t, IF upd.kind = "text" THEN "l797"
               ELSE IF upd.data = <<"order_bot">> THEN "l388"
               ELSE "l80")
    /\ UNCHANGED <<user_states, user_data, orders, order_counter, conv_orders,
                   raceOther>>

\* line 388: user_state.set_state(user_id, 'waiting_for_idea')
R388(t) ==
    /\ pc[t] = "l388"
    /\ Commit(set_state(World, frame[t].upd.user, WAITING_FOR_IDEA))
    /\ frame' = [frame EXCEPT ![t] = <<>>]
    /\ Goto(t, "idle")
    /\ UNCHANGED <<calls, conv_orders, raceOther>>

\* line 80, in clear_state called at 789 (main_menu) or 972 (order stored)
R80(t) ==
    /\ pc[t] = "l80"
    /\ user_states' = DictPop(user_states, frame[t].upd.user)
    /\ Goto(t, "l81")
    /\ UNCHANGED <<user_data, orders, order_counter, frame, calls, conv_orders,
                   raceOther>>

\* line 81
R81(t) ==
    /\ pc[t] = "l81"
    /\ user_data' = DictPop(user_data, frame[t].upd.user)
    /\ frame' = [frame EXCEPT ![t] = <<>>]
    /\ Goto(t, "idle")
    /\ UNCHANGED <<user_states, orders, order_counter, calls, conv_orders,
                   raceOther>>

\* line 797: current_state = user_state.get_state(user_id), and the tests
\* on the text that follow it (801, 847)
R797(t) ==
    /\ pc[t] = "l797"
    /\ LET u == frame[t].upd.user
           text == frame[t].upd.data
           current_state == get_state(World, u)
           to == IF current_state = Some(WAITING_FOR_IDEA) /\ ~IdeaTooShort(text)
                 THEN "l810"
                 ELSE IF current_state = Some(WAITING_FOR_TOKEN)
                         /\ ~TokenShapeBad(strip(text))
                 THEN "l873"
                 ELSE "idle"
       IN  /\ Goto(t, to)
           /\ frame' = [frame EXCEPT ![t] = IF to = "idle" THEN <<>> ELSE @]
    /\ UNCHANGED <<user_states, user_data, orders, order_counter, calls,
                   conv_orders, raceOther>>

\* line 810: user_state.set_data(user_id, 'bot_idea', message.text)
R810(t) ==
    /\ pc[t] = "l810"
    /\ Commit(set_data(World, frame[t].upd.user, BOT_IDEA, frame[t].upd.data))
    /\ Goto(t, "l811")
    /\ UNCHANGED <<frame, calls, conv_orders, raceOther>>

\* line 811: user_state.set_state(user_id, 'waiting_for_token')
R811(t) ==
    /\ pc[t] = "l811"
    /\ Commit(set_state(World, frame[t].upd.user, WAITING_FOR_TOKEN))
    /\ conv_orders' = [conv_orders EXCEPT ![frame[t].upd.user] = 0]
    /\ frame' = [frame EXCEPT ![t] = <<>>]
    /\ Goto(t, "idle")
    /\ UNCHANGED <<calls, raceOther>>

\* lines 873-876: the request to getMe and its answer
R873(t, ok) ==
    /\ pc[t] = "l873"
    /\ Goto(t, IF ok THEN "l881" ELSE "idle")
    /\ frame' = [frame EXCEPT ![t] = IF ok THEN @ ELSE <<>>]
    /\ UNCHANGED <<user_states, user_data, orders, order_counter, calls,
                   conv_orders, raceOther>>

\* line 881: bot_idea = user_state.get_data(user_id, 'bot_idea')
R881(t) ==
    /\ pc[t] = "l881"
    /\ Local(t, "bot_idea", get_data(World, frame[t].upd.user, BOT_IDEA, None))
    /\ Goto(t, "l887")
    /\ UNCHANGED <<user_states, user_data, orders, order_counter, calls,
                   conv_orders, raceOther>>

\* lines 887-893: create_order and the write of bot_username
R887(t) ==
    /\ pc[t] = "l887"
    /\ LET u == frame[t].upd.user
           r == create_order(World, u, FullName(u), frame[t].bot_idea,
                             strip(frame[t].upd.data), clock)
       IN  /\ Commit(SetField(r.w, r.order_id, "bot_username", Some(BotHandle)))
           /\ conv_orders' = [conv_orders EXCEPT ![u] = @ + 1]
    /\ Goto(t, "l925")
    /\ UNCHANGED <<frame, calls, raceOther>>

\* lines 895-970: the confirmation text is built with bot_idea[:150], which
\* raises TypeError when bot_idea is None and ends the run; otherwise the
\* messages are sent
R925(t) ==
    /\ pc[t] = "l925"
    /\ Goto(t, IF frame[t].bot_idea = None THEN "idle" ELSE "l80")
    /\ frame' = [frame EXCEPT ![t] = IF frame[t].bot_idea = None THEN <<>> ELSE @]
    /\ UNCHANGED <<user_states, user_data, orders, order_counter, calls,
                   conv_orders, raceOther>>

NextRace ==
    \/ \E t \in Threads, u \in Senders : \E upd \in RaceUpdates(u) : Receive(t, upd)
    \/ \E t \in Threads : R388(t)
    \/ \E t \in Threads : R80(t)
    \/ \E t \in Threads : R81(t)
    \/ \E t \in Threads : R797(t)
    \/ \E t \in Threads : R810(t)
    \/ \E t \in Threads : R811(t)
    \/ \E t \in Threads, ok \in BOOLEAN : R873(t, ok)
    \/ \E t \in Threads : R881(t)
    \/ \E t \in Threads : R887(t)
    \/ \E t \in Threads : R925(t)

SpecRace == Init /\ [][NextRace]_vars

(***************************************************************************)
(* SpecStamp: update_order_status called by several threads for the same   *)
(* order, one statement at a time, while the wall clock advances.          *)
(***************************************************************************)
stampOther == <<user_states, user_data, order_counter, lock, alloc, returned,
                conv_idea, flows, conv_orders, session, entered, accepted, last>>

\* the order the calls are about is stored
StampCreate(u) ==
    /\ orders = <<>>
    /\ Commit(create_order(World, u, FullName(u), Some(T_idea), strip(T_tok20),
                           clock).w)
    /\ UNCHANGED <<clock, conv_idea, flows, threadVars, conv_orders, session, entered, accepted, last>>

\* the wall clock reaches the next second
Tick ==
    /\ clock < MaxTicks
    /\ clock' = clock + 1
    /\ UNCHANGED <<orders, pc, frame, calls, stampOther>>

\* a thread enters update_order_status(order_id, status)
StampCall(t, order_id, status) ==
    /\ pc[t] = "idle"
    /\ calls < MaxStampCalls
    /\ calls' = calls + 1
    /\ frame' = [frame EXCEPT ![t] = [order_id |-> order_id, status |-> status]]
    /\ Goto(t, "l133")
    /\ UNCHANGED <<orders, clock, stampOther>>

\* lines 133-134: order = self.orders.get(order_id); if order:
U133(t) ==
    /\ pc[t] = "l133"
    /\ Goto(t, IF get_order(World, frame[t].order_id) # None THEN "l135" ELSE "idle")
    /\ frame' = [frame EXCEPT ![t] =
                    IF get_order(World, frame[t].order_id) # None THEN @ ELSE <<>>]
    /\ UNCHANGED <<orders, clock, calls, stampOther>>

\* line 135: order.status = status (notes is empty: 136 is not taken)
U135(t) ==
    /\ pc[t] = "l135"
    /\ orders' = SetField(World, frame[t].order_id, "status", frame[t].status).orders
    /\ Goto(t, "l139")
    /\ UNCHANGED <<clock, frame, calls, stampOther>>

\* line 139: if status == OrderStatus.COMPLETED and not order.completed_at:
U139(t) ==
    /\ pc[t] = "l139"
    /\ LET taken == /\ frame[t].status = COMPLETED
                    /\ get_order(World, frame[t].order_id)[1].completed_at = None
       IN  /\ Goto(t, IF taken THEN "l140" ELSE "idle")
           /\ frame' = [frame EXCEPT ![t] = IF taken THEN @ ELSE <<>>]
    /\ UNCHANGED <<orders, clock, calls, stampOther>>

\* line 140: order.completed_at = datetime.now().strftime(...)
U140(t) ==
    /\ pc[t] = "l140"
    /\ orders' = SetField(World, frame[t].order_id, "completed_at",
                          Some(clock)).orders
    /\ frame' = [frame EXCEPT ![t] = <<>>]
    /\ Goto(t, "idle")
    /\ UNCHANGED <<clock, calls, stampOther>>

NextStamp ==
    \/ \E u \in Users : StampCreate(u)
    \/ Tick
    \/ \E t \in Threads, order_id \in {FirstId}, status \in {COMPLETED, PROCESSING} :
           StampCall(t, order_id, status)
    \/ \E t \in Threads : U133(t)
    \/ \E t \in Threads : U135(t)
    \/ \E t \in Threads : U139(t)
    \/ \E t \in Threads : U140(t)

SpecStamp == Init /\ [][NextStamp]_vars

(***************************************************************************)
(* SpecConc: handlers running in several threads.  create_order, called at *)
(* line 887, is taken one statement at a time, followed by the write of    *)
(* line 893; update_order_status is called from other threads.  pc is the *)
(* line of src/jfp.py the thread is about to execute.                      *)
(***************************************************************************)
storeVars == <<user_states, user_data, conv_idea, flows, last>>

\* lock.acquire() blocks while another thread holds the lock
\* faulty variant of LockFree: the lock excludes nobody
LockFreeAlways == TRUE
LockFree == lock = 0

\* a thread enters create_order
Call(t, u) ==
    /\ pc[t] = "idle"
    /\ calls < MaxCalls
    /\ calls' = calls + 1
    /\ frame' = [frame EXCEPT ![t] = [user_id |-> u]]
    /\ Goto(t, "l103")
    /\ UNCHANGED <<orders, order_counter, lock, clock, alloc, returned, storeVars, conv_orders, session, entered, accepted>>

\* line 103: with self.lock
L103(t) ==
    /\ pc[t] = "l103"
    /\ LockFree
    /\ lock' = t
    /\ Goto(t, "l104")
    /\ UNCHANGED <<orders, order_counter, clock, frame, alloc, returned, calls,
                   storeVars, conv_orders, session, entered, accepted>>

\* line 104: order_id = f"ORD{self.order_counter:06d}"
L104(t) ==
    /\ pc[t] = "l104"
    /\ LET order_id == FormatOrderId(order_counter)
       IN  /\ frame' = [frame EXCEPT ![t] =
                            [user_id |-> @.user_id, order_id |-> order_id]]
           /\ alloc' = Append(alloc, order_id)
    /\ Goto(t, "l105")
    /\ UNCHANGED <<orders, order_counter, lock, clock, returned, calls, storeVars, conv_orders, session, entered, accepted>>

\* lines 105-112: order = Order(...); self.orders[order_id] = order
L105(t) ==
    /\ pc[t] = "l105"
    /\ LET f == frame[t]
           order == Order(f.user_id, FullName(f.user_id), f.order_id,
                          Some(T_idea), strip(T_tok20), clock)
       IN  orders' = OrdSet(orders, f.order_id, order)
    /\ Goto(t, "l113")
    /\ UNCHANGED <<order_counter, lock, clock, frame, alloc, returned, calls,
                   storeVars, conv_orders, session, entered, accepted>>

\* line 113, self.order_counter += 1: the read
L113(t) ==
    /\ pc[t] = "l113"
    /\ frame' = [frame EXCEPT ![t] =
                    [user_id |-> @.user_id, order_id |-> @.order_id,
                     counter |-> order_counter]]
    /\ Goto(t, "l113w")
    /\ UNCHANGED <<orders, order_counter, lock, clock, alloc, returned, calls,
                   storeVars, conv_orders, session, entered, accepted>>

\* line 113: the write
L113w(t) ==
    /\ pc[t] = "l113w"
    /\ order_counter' = frame[t].counter + 1
    /\ Goto(t, "l117")
    /\ UNCHANGED <<orders, lock, clock, frame, alloc, returned, calls, storeVars, conv_orders, session, entered, accepted>>

\* line 117: return order, leaving the with block
L117(t) ==
    /\ pc[t] = "l117"
    /\ lock' = 0
    /\ returned' = Append(returned, frame[t].order_id)
    /\ Goto(t, "l893")
    /\ UNCHANGED <<orders, order_counter, clock, frame, alloc, calls, storeVars, conv_orders, session, entered, accepted>>

\* line 893, in the handler that called create_order at line 887:
\* order.bot_username = bot_username
L893(t) ==
    /\ pc[t] = "l893"
    /\ orders' = SetField(World, frame[t].order_id, "bot_username",
                          Some(BotHandle)).orders
    /\ frame' = [frame EXCEPT ![t] = <<>>]
    /\ Goto(t, "idle")
    /\ UNCHANGED <<order_counter, lock, clock, alloc, returned, calls, storeVars, conv_orders, session, entered, accepted>>

\* lines 573 and 132-144: a thread handling a status_completed_ click runs
\* update_order_status, which does not take the lock
ConcUpdateStatus(t, order_id) ==
    /\ pc[t] = "idle"
    /\ get_order(World, order_id) # None
    /\ get_order(World, order_id)[1].status # COMPLETED
    /\ orders' = update_order_status(World, order_id, COMPLETED, <<>>, clock).w.orders
    /\ UNCHANGED <<order_counter, lock, clock, pc, frame, alloc, returned, calls,
                   storeVars, conv_orders, session, entered, accepted>>

NextConc ==
    \/ \E t \in Threads, u \in Users : Call(t, u)
    \/ \E t \in Threads : L103(t)
    \/ \E t \in Threads : L104(t)
    \/ \E t \in Threads : L105(t)
    \/ \E t \in Threads : L113(t)
    \/ \E t \in Threads : L113w(t)
    \/ \E t \in Threads : L117(t)
    \/ \E t \in Threads : L893(t)
    \/ \E t \in Threads, order_id \in OrdKeys(orders) : ConcUpdateStatus(t, order_id)

SpecConc == Init /\ [][NextConc]_vars

(***************************************************************************)
(*                              Properties                                 *)
(***************************************************************************)

\* C1 (SpecConc): for any number of create_order calls issued by several
\* threads, the ids computed under the lock, taken in the order in which the
\* calls got the lock, are ORD followed by six digits whose numeric parts are
\* 1, 2, 3, ... (strictly increasing, no gap, no reuse); every id returned is
\* distinct from every other id returned and is the key of a stored order
\* that carries it.
C1_UniqueIncreasingIds ==
    /\ \A i \in 1..Len(alloc) :
          /\ Len(alloc[i]) = 9
          /\ SubSeq(alloc[i], 1, 3) = <<"O", "R", "D">>
          /\ NumericPart(alloc[i]) = i
    /\ \A i, j \in 1..Len(alloc) : i < j => NumericPart(alloc[i]) < NumericPart(alloc[j])
    /\ \A i, j \in 1..Len(returned) : i # j => returned[i] # returned[j]
    /\ \A i \in 1..Len(returned) :
          /\ returned[i] \in OrdKeys(orders)
          /\ OrdGet(orders, returned[i])[1].order_id = returned[i]
    /\ \A i, j \in 1..Len(orders) : i # j => orders[i].key # orders[j].key

\* a thread waits for the lock that another thread holds inside its call,
\* after an earlier call has returned its order
C1_Witness ==
    \E t1, t2 \in Threads :
        /\ t1 # t2
        /\ pc[t1] = "l103"
        /\ lock = t2
        /\ pc[t2] = "l113w"
        /\ Len(returned) >= 1
        /\ Len(alloc) = Len(returned) + 1

\* C2 (Spec): after any sequence of events, a user has at most as many
\* orders as the user has completed the sequence "idea of at least 10
\* stripped characters sent under waiting_for_idea, then, in the same
\* conversation, a text with ':' and at least 20 stripped characters sent
\* under waiting_for_token and accepted by the platform"; and every step that
\* adds an order of a user is the second half of such a sequence and adds
\* exactly one order.
C2_OrderOnlyAfterIdeaThenToken ==
    /\ [](\A u \in Users : Len(get_user_orders(World, u)) <= flows[u])
    /\ [](\A u \in Users :
            get_state(World, u) = Some(WAITING_FOR_TOKEN) => conv_idea[u] # None)
    /\ [][\A u \in Users :
            Len(get_user_orders(World', u)) # Len(get_user_orders(World, u)) =>
              /\ last'.op = "text"
              /\ last'.user = u
              /\ get_state(World, u) = Some(WAITING_FOR_TOKEN)
              /\ conv_idea[u] # None
              /\ Len(strip(conv_idea[u][1])) >= 10
              /\ Contains(strip(last'.arg), ":")
              /\ Len(strip(last'.arg)) >= 20
              /\ last'.net \in {"ok", "send_failed"}
              /\ Len(get_user_orders(World', u)) = Len(get_user_orders(World, u)) + 1
              /\ get_user_orders(World', u)[Len(get_user_orders(World', u))].bot_idea
                    = conv_idea[u]
              /\ flows'[u] = flows[u] + 1]_vars

\* a user has just had an order created by a platform-accepted token sent
\* under waiting_for_token after an idea
C2_Witness ==
    /\ last.op = "text"
    /\ last.was = Some(WAITING_FOR_TOKEN)
    /\ last.net = "ok"
    /\ Len(get_user_orders(World, last.user)) = 1
    /\ flows[last.user] = 1

\* C3 (Spec): when a user under waiting_for_token sends a text whose stripped
\* form contains ':' and has at least 20 characters, and getMe answers
\* ok=true, the run of the handler adds exactly one order and ends with the
\* user idle: get_state is None and the stashed idea is gone.
C3_AcceptedTokenOneOrderThenIdle ==
    [][\A u \in Users :
         (/\ last'.op = "text"
          /\ last'.user = u
          /\ get_state(World, u) = Some(WAITING_FOR_TOKEN)
          /\ Contains(strip(last'.arg), ":")
          /\ Len(strip(last'.arg)) >= 20
          /\ last'.net \in {"ok", "send_failed"})
         => /\ Len(orders') = Len(orders) + 1
            /\ get_state(World', u) = None
            /\ get_data(World', u, BOT_IDEA, None) = None]_vars

\* C4 (Spec): when a user under waiting_for_token sends a text without ':' or
\* with fewer than 20 stripped characters, or a text of token shape for which
\* getMe answers ok=false, the run adds no order, leaves the order counter
\* and every order as they were, keeps the stashed idea and leaves the user
\* under waiting_for_token.
C4_RejectedTokenChangesNothing ==
    [][\A u \in Users :
         (/\ last'.op = "text"
          /\ last'.user = u
          /\ get_state(World, u) = Some(WAITING_FOR_TOKEN)
          /\ \/ ~Contains(strip(last'.arg), ":")
             \/ Len(strip(last'.arg)) < 20
             \/ last'.net = "rejected")
         => /\ orders' = orders
            /\ order_counter' = order_counter
            /\ get_data(World', u, BOT_IDEA, None) # None
            /\ get_data(World', u, BOT_IDEA, None) = get_data(World, u, BOT_IDEA, None)
            /\ get_state(World', u) = Some(WAITING_FOR_TOKEN)]_vars

\* a token of the right shape has just been rejected by the platform and the
\* user is still under waiting_for_token with the idea stashed
C4_Witness ==
    /\ last.op = "text"
    /\ last.was = Some(WAITING_FOR_TOKEN)
    /\ last.arg = T_tok20
    /\ last.net = "rejected"
    /\ get_state(World, last.user) = Some(WAITING_FOR_TOKEN)
    /\ get_data(World, last.user, BOT_IDEA, None) = Some(T_idea)
    /\ orders = <<>>

\* C5 (Spec): when a user under waiting_for_idea sends a text of fewer than
\* 10 stripped characters, the user stays under waiting_for_idea and
\* get_data(user, 'bot_idea') returns what it returned before the message.
C5_ShortIdeaKeepsState ==
    [][\A u \in Users :
         (/\ last'.op = "text"
          /\ last'.user = u
          /\ get_state(World, u) = Some(WAITING_FOR_IDEA)
          /\ Len(strip(last'.arg)) < 10)
         => /\ get_state(World', u) = Some(WAITING_FOR_IDEA)
            /\ \A default \in {None, Some(T_blank)} :
                  get_data(World', u, BOT_IDEA, default)
                      = get_data(World, u, BOT_IDEA, default)]_vars

\* a text of 9 characters between blanks has just been sent under
\* waiting_for_idea by a user who went back from waiting_for_token, and the
\* earlier stash is still what get_data returns
C5_Witness ==
    /\ last.op = "text"
    /\ last.was = Some(WAITING_FOR_IDEA)
    /\ last.arg = T_short
    /\ get_state(World, last.user) = Some(WAITING_FOR_IDEA)
    /\ get_data(World, last.user, BOT_IDEA, None) = Some(T_idea)

\* C6 (Spec): when a user under waiting_for_idea sends a text of at least 10
\* stripped characters, the text is stashed as the user's 'bot_idea', the
\* user's label becomes waiting_for_token, and the run creates no order.
C6_IdeaStashedThenToken ==
    [][\A u \in Users :
         (/\ last'.op = "text"
          /\ last'.user = u
          /\ get_state(World, u) = Some(WAITING_FOR_IDEA)
          /\ Len(strip(last'.arg)) >= 10)
         => /\ get_data(World', u, BOT_IDEA, None) = Some(last'.arg)
            /\ get_state(World', u) = Some(WAITING_FOR_TOKEN)
            /\ orders' = orders
            /\ order_counter' = order_counter]_vars

\* an idea has just replaced an earlier stash of the user, who is now under
\* waiting_for_token
C6_Witness ==
    /\ last.op = "text"
    /\ last.was = Some(WAITING_FOR_IDEA)
    /\ last.arg = T_tok20
    /\ get_state(World, last.user) = Some(WAITING_FOR_TOKEN)
    /\ get_data(World, last.user, BOT_IDEA, None) = Some(T_tok20)
    /\ conv_idea[last.user] = Some(T_tok20)

C9_ClearStateResets ==
    /\ \A u \in Users :
          LET w2 == clear_state(World, u)
          IN  /\ get_state(w2, u) = None
              /\ \A key \in DataKeys, default \in Defaults :
                    get_data(w2, u, key, default) = default
              /\ clear_state(w2, u) = w2
              /\ (u \notin DOMAIN user_states /\ u \notin DOMAIN user_data) => w2 = World
              /\ \A v \in Users \ {u} :
                    /\ get_state(w2, v) = get_state(World, v)
                    /\ \A key \in DataKeys, default \in Defaults :
                          get_data(w2, v, key, default) = get_data(World, v, key, default)
    /\ last.op = "clear_state" =>
          /\ get_state(World, last.user) = None
          /\ \A key \in DataKeys, default \in Defaults :
                get_data(World, last.user, key, default) = default

\* clear_state has just removed a label and stashed data of one user while
\* the other user keeps a label and data
C9_Witness ==
    /\ last.op = "clear_state"
    /\ last.ret = <<TRUE, TRUE>>
    /\ \E v \in Users \ {last.user} :
          v \in DOMAIN user_states /\ v \in DOMAIN user_data

\* C10 (SpecOrders): update_order_status and update_order_details called with
\* an order id that is not in the store return False and leave the order
\* records, the order mapping and the order counter as they were.
C10_UpdateMissingOrder ==
    /\ \A order_id \in ApiIds \ OrdKeys(orders) :
          /\ \A status \in OrderStatus, notes \in NotesArgs, now \in Readings :
                update_order_status(World, order_id, status, notes, now)
                    = [w |-> World, ret |-> FALSE]
          /\ \A price \in DetailArgs(Price1), time \in DetailArgs(Time1),
                notes \in DetailArgs(Note1) :
                update_order_details(World, order_id, price, time, notes)
                    = [w |-> World, ret |-> FALSE]
    /\ (last.op \in {"update_order_status", "update_order_details"}
            /\ last.arg \notin OrdKeys(orders)) => last.ret = <<FALSE>>

\* update_order_status has just been called with an id that is not in a
\* store that holds an order, and returned False
C10_Witness ==
    /\ last.op = "update_order_status"
    /\ last.arg = BogusId
    /\ last.ret = <<FALSE>>
    /\ orders # <<>>
    /\ last.arg \notin OrdKeys(orders)

\* the position of an order id in the sequence of creations
CreatedPos(id) == CHOOSE k \in 1..Len(returned) : returned[k] = id

\* C11 (SpecLedger): after any sequence of create_order, update_order_status
\* and update_order_details calls, get_user_orders(u) holds only records of
\* get_all_orders() whose user_id is u, holds each such record exactly once,
\* and lists them in the order in which they were created; get_all_orders()
\* lists the records in creation order.
C11_UserOrdersFilterInCreationOrder ==
    /\ Len(get_all_orders(World)) = Len(returned)
    /\ \A j \in 1..Len(returned) : get_all_orders(World)[j].order_id = returned[j]
    /\ \A u \in Users :
          LET mine == get_user_orders(World, u)
              all == get_all_orders(World)
          IN  /\ \A i \in 1..Len(mine) :
                    /\ mine[i].user_id = u
                    /\ \E j \in 1..Len(all) : all[j] = mine[i]
              /\ \A j \in 1..Len(all) :
                    all[j].user_id = u
                    => Cardinality({i \in 1..Len(mine) : mine[i] = all[j]}) = 1
              /\ \A i, j \in 1..Len(mine) :
                    i < j => CreatedPos(mine[i].order_id) < CreatedPos(mine[j].order_id)

\* get_user_orders has just returned the second order alone, the first
\* order belonging to the other user and having been updated
C11_Witness ==
    /\ last.op = "get_user_orders"
    /\ last.ret = <<FormatOrderId(2)>>
    /\ Len(orders) = 2
    /\ orders[1].val.user_id # last.user
    /\ orders[1].val.status = COMPLETED
    /\ orders[2].val.estimated_price = Price1

\* C12 (SpecLedger): after any sequence of create_order and
\* update_order_status calls, get_stats reports as total the number of orders
\* created, and as pending, processing and completed the number of stored
\* orders whose status is PENDING, PROCESSING and COMPLETED; what get_stats
\* last returned is what the store holds.
C12_StatsCountByStatus ==
    LET st == get_stats(World)
        N(status) == Cardinality({i \in 1..Len(orders) : orders[i].val.status = status})
    IN  /\ st.total = Len(returned)
        /\ st.pending = N(PENDING)
        /\ st.processing = N(PROCESSING)
        /\ st.completed = N(COMPLETED)
        /\ st.total = st.pending + st.processing + st.completed + N(CANCELLED)
        /\ (\A i \in 1..Len(orders) : orders[i].val.status = PENDING)
              => st.pending = Len(returned)
        /\ last.op = "get_stats"
              => last.ret = <<Len(returned), N(PENDING), N(PROCESSING), N(COMPLETED)>>

\* get_stats has just reported total 2, pending 1, completed 1 after two
\* creations and the completion of one of the orders
C12_Witness ==
    /\ last.op = "get_stats"
    /\ last.ret = <<2, 1, 0, 1>>
    /\ Len(returned) = 2
    /\ orders[2].val.status = COMPLETED
    /\ orders[2].val.completed_at # None

\* C13 (SpecOrders): a completion timestamp that is set is kept by every
\* later update_order_status and update_order_details call, whatever the
\* order's status becomes; it is set only by an update_order_status call that
\* puts the order in COMPLETED, and such a call on an order without a
\* timestamp sets it to the instant of the call.
C13_CompletedAtWrittenOnce ==
    [][\A i \in 1..Len(orders) :
         LET o == orders[i].val
             o2 == orders'[i].val
             hit == last'.op = "update_order_status" /\ last'.arg = orders[i].key
         IN  /\ o.completed_at # None => o2.completed_at = o.completed_at
             /\ (o.completed_at = None /\ hit /\ o2.status = COMPLETED)
                   => (o2.completed_at = Some(clock') /\ clock' > clock)
             /\ (o.completed_at = None /\ o2.completed_at # None)
                   => (hit /\ o2.status = COMPLETED)]_vars

\* an order that was already COMPLETED has just been completed again, with a
\* note and a price set, and carries a completion timestamp
C13_Witness ==
    /\ last.op = "update_order_status"
    /\ last.was = Some(<<COMPLETED>>)
    /\ last.ret = <<TRUE>>
    /\ Len(orders) = 1
    /\ orders[1].val.status = COMPLETED
    /\ orders[1].val.completed_at = Some(clock)
    /\ orders[1].val.created_at < clock
    /\ orders[1].val.estimated_price = Price1

\* C14 (SpecConc): every step that changes the order counter, the order
\* mapping or a field of a stored order is a step of the thread that holds
\* the store's lock.
C14_MutationsUnderLock ==
    [][(orders' # orders \/ order_counter' # order_counter)
          => (lock # 0 /\ pc'[lock] # pc[lock])]_vars

\* C15 (SpecLedger): in every state between calls the counter is the number
\* of stored orders plus one; create_order appends exactly one record, stored
\* under the id it returns, with status PENDING, empty admin notes and no
\* completion timestamp, leaves every existing entry as it was and adds one
\* to the counter.
C15_CreateOrderAddsOneRecord ==
    /\ order_counter = Len(orders) + 1
    /\ \A u \in Users :
          LET r == create_order(World, u, FullName(u), Some(T_idea),
                                strip(T_tok20), clock)
              o == get_order(r.w, r.order_id)
          IN  /\ r.order_id \notin OrdKeys(orders)
              /\ Len(r.w.orders) = Len(orders) + 1
              /\ \A i \in 1..Len(orders) : r.w.orders[i] = orders[i]
              /\ r.w.orders[Len(orders) + 1].key = r.order_id
              /\ o # None
              /\ o[1].order_id = r.order_id
              /\ o[1].user_id = u
              /\ o[1].status = PENDING
              /\ o[1].admin_notes = <<>>
              /\ o[1].completed_at = None
              /\ r.w.order_counter = order_counter + 1
              /\ r.w.user_states = user_states
              /\ r.w.user_data = user_data
    /\ last.op = "create_order"
          => /\ orders[Len(orders)].key = last.arg
             /\ orders[Len(orders)].val.status = PENDING
             /\ orders[Len(orders)].val.admin_notes = <<>>
             /\ orders[Len(orders)].val.completed_at = None
             /\ order_counter = NumericPart(last.arg) + 1

\* a second order has just been created next to a first order that had been
\* completed and priced
C15_Witness ==
    /\ last.op = "create_order"
    /\ last.arg = FormatOrderId(2)
    /\ Len(orders) = 2
    /\ order_counter = 3
    /\ orders[1].val.status = COMPLETED
    /\ orders[1].val.estimated_price = Price1
    /\ orders[2].val.status = PENDING

\* C16 (SpecLedger): the store is append-only.  Every id in the store before
\* a step is in the store after it, with the same order_id, user_id, bot_idea
\* and bot_token; and the record stored under a key has that key as its
\* order_id.
C16_AppendOnlyIdentityFixed ==
    [][/\ \A k \in OrdKeys(orders) :
            /\ k \in OrdKeys(orders')
            /\ OrdGet(orders', k)[1].order_id = OrdGet(orders, k)[1].order_id
            /\ OrdGet(orders', k)[1].user_id = OrdGet(orders, k)[1].user_id
            /\ OrdGet(orders', k)[1].bot_idea = OrdGet(orders, k)[1].bot_idea
            /\ OrdGet(orders', k)[1].bot_token = OrdGet(orders, k)[1].bot_token
       /\ \A i \in 1..Len(orders') : orders'[i].val.order_id = orders'[i].key
       /\ \A i, j \in 1..Len(orders') :
            orders'[i].key = orders'[j].key => i = j]_vars

\* two orders of different users, the first cancelled and priced after the
\* second was created, both still stored under their ids with their tokens
C16_Witness ==
    /\ Len(orders) = 2
    /\ last.op = "update_order_details"
    /\ last.arg = FormatOrderId(1)
    /\ orders[1].key = FormatOrderId(1)
    /\ orders[1].val.order_id = FormatOrderId(1)
    /\ orders[1].val.status = CANCELLED
    /\ orders[1].val.estimated_price = Price1
    /\ orders[1].val.bot_token = strip(T_tok20)
    /\ orders[1].val.bot_idea = Some(T_idea)
    /\ orders[2].key = FormatOrderId(2)
    /\ orders[2].val.status = PROCESSING
    /\ orders[1].val.user_id # orders[2].val.user_id

\* C17 (SpecOrders): update_order_details on a stored order returns True and
\* writes estimated_price, estimated_time and admin_notes exactly where the
\* argument is a non-empty string; each of the three fields whose argument is
\* None or empty, and every other field of the order, status, completed_at
\* and the identity fields among them, is as it was.  No other order, no
\* counter and no user state is touched.
C17_DetailsWriteOnlyGivenFields ==
    \A order_id \in OrdKeys(orders) :
      \A price \in DetailArgs(Price1), time \in DetailArgs(Time1),
         notes \in DetailArgs(Note1) :
        LET r == update_order_details(World, order_id, price, time, notes)
            o == get_order(World, order_id)[1]
            n == get_order(r.w, order_id)[1]
        IN  /\ r.ret = TRUE
            /\ n = [o EXCEPT
                      !.estimated_price = IF price \notin {None, Some(<<>>)} THEN price[1] ELSE @,
                      !.estimated_time = IF time \notin {None, Some(<<>>)} THEN time[1] ELSE @,
                      !.admin_notes = IF notes \notin {None, Some(<<>>)} THEN notes[1] ELSE @]
            /\ n.status = o.status
            /\ n.completed_at = o.completed_at
            /\ n.order_id = o.order_id /\ n.user_id = o.user_id
            /\ n.bot_idea = o.bot_idea /\ n.bot_token = o.bot_token
            /\ Len(r.w.orders) = Len(orders)
            /\ \A k \in OrdKeys(orders) \ {order_id} :
                  get_order(r.w, k) = get_order(World, k)
            /\ r.w.order_counter = order_counter
            /\ r.w.user_states = user_states
            /\ r.w.user_data = user_data

\* update_order_details has just returned True for a completed order that
\* carries a price and a time set by it and a note it left alone
C17_Witness ==
    /\ last.op = "update_order_details"
    /\ last.ret = <<TRUE>>
    /\ Len(orders) = 1
    /\ orders[1].val.estimated_price = Price1
    /\ orders[1].val.estimated_time = Time1
    /\ orders[1].val.admin_notes = Note1
    /\ orders[1].val.status = COMPLETED
    /\ orders[1].val.completed_at # None

\* C18 (SpecOrders): for a stored order in any status and any of the four
\* target statuses, update_order_status returns True and the order is then in
\* the target status; admin_notes is the notes argument when that is
\* non-empty and is as it was when it is empty.
C18_EveryStatusTransitionAllowed ==
    /\ \A order_id \in OrdKeys(orders), status \in OrderStatus,
          notes \in NotesArgs, now \in Readings :
          LET r == update_order_status(World, order_id, status, notes, now)
              o == get_order(World, order_id)[1]
              n == get_order(r.w, order_id)[1]
          IN  /\ r.ret = TRUE
              /\ n.status = status
              /\ n.admin_notes = IF notes # <<>> THEN notes ELSE o.admin_notes
    /\ (last.op = "update_order_status" /\ last.was # None)
          => last.ret = <<TRUE>>

\* a call has just returned True that put an order back from CANCELLED to
\* PENDING; the order had been completed before and carries a note
C18_Witness ==
    /\ last.op = "update_order_status"
    /\ last.ret = <<TRUE>>
    /\ last.was = Some(<<CANCELLED>>)
    /\ Len(orders) = 1
    /\ orders[1].val.status = PENDING
    /\ orders[1].val.completed_at # None
    /\ orders[1].val.admin_notes = Note1

\* C19 (Spec): an event sent by user u leaves the label and the stashed data
\* of every other user as they were; and in every state each of set_state,
\* clear_state and set_data called for user u leaves the label and the
\* stashed data of every other user as they were.
C19_OtherUsersUntouched ==
    /\ [][\A v \in Users \ {last'.user} :
             /\ DictGet(user_states', v) = DictGet(user_states, v)
             /\ DictGet(user_data', v) = DictGet(user_data, v)]_vars
    /\ [](\A u \in Users : \A v \in Users \ {u} :
             /\ \A label \in Labels :
                  /\ DictGet(set_state(World, u, label).user_states, v)
                        = DictGet(user_states, v)
                  /\ DictGet(set_state(World, u, label).user_data, v)
                        = DictGet(user_data, v)
             /\ DictGet(clear_state(World, u).user_states, v)
                   = DictGet(user_states, v)
             /\ DictGet(clear_state(World, u).user_data, v)
                   = DictGet(user_data, v)
             /\ \A key \in DataKeys, value \in DataValues :
                  /\ DictGet(set_data(World, u, key, value).user_states, v)
                        = DictGet(user_states, v)
                  /\ DictGet(set_data(World, u, key, value).user_data, v)
                        = DictGet(user_data, v))

\* the administrator has just left the order dialogue by the main-menu
\* button, which cleared their own label, while the other user is still
\* waiting for a token with the idea stashed
C19_Witness ==
    /\ last.op = "callback"
    /\ last.user = ADMIN_ID
    /\ last.arg = <<"main_menu">>
    /\ last.was = Some(WAITING_FOR_IDEA)
    /\ get_state(World, ADMIN_ID) = None
    /\ \E v \in Users \ {ADMIN_ID} :
          /\ get_state(World, v) = Some(WAITING_FOR_TOKEN)
          /\ get_data(World, v, BOT_IDEA, None) = Some(T_idea)

\* C20 (Spec): when the validation request of a text sent under
\* waiting_for_token fails with a network or timeout error, no order is
\* created, the counter is as it was, the sender's label is still
\* waiting_for_token and the idea is still stashed, and the run made exactly
\* one validation request.
C20_NetworkErrorKeepsConversation ==
    [][(/\ last'.op = "text"
        /\ last'.net = "error"
        /\ get_state(World, last'.user) = Some(WAITING_FOR_TOKEN))
         => /\ orders' = orders
            /\ order_counter' = order_counter
            /\ get_state(World', last'.user) = Some(WAITING_FOR_TOKEN)
            /\ get_data(World', last'.user, BOT_IDEA, None) # None
            /\ get_data(World', last'.user, BOT_IDEA, None)
                  = get_data(World, last'.user, BOT_IDEA, None)
            /\ user_states' = user_states
            /\ user_data' = user_data
            /\ GetMeRequests(World, last'.user, last'.arg) = 1]_vars

\* a well-shaped token was sent under waiting_for_token, the request failed,
\* and the sender is still waiting for a token with the idea stashed and no
\* order stored
C20_Witness ==
    /\ last.op = "text"
    /\ last.net = "error"
    /\ last.arg = T_tok20
    /\ last.was = Some(WAITING_FOR_TOKEN)
    /\ get_state(World, last.user) = Some(WAITING_FOR_TOKEN)
    /\ get_data(World, last.user, BOT_IDEA, None) = Some(T_idea)
    /\ orders = <<>>
    /\ order_counter = 1

\* C21 (SpecLookup): a lookup of a missing entity returns an absence value:
\* get_order None for an id that is not stored, get_state None for a user
\* without a label, get_data the default for a user without a stash, and
\* get_user_orders the empty list for a user without orders; and no lookup
\* changes a store.
C21_MissingLookupsReturnAbsence ==
    /\ [](/\ \A order_id \in LookupIds :
                order_id \notin OrdKeys(orders) => get_order(World, order_id) = None
          /\ \A u \in Users :
                /\ u \notin DOMAIN user_states => get_state(World, u) = None
                /\ u \notin DOMAIN user_data
                      => \A key \in DataKeys, default \in Defaults :
                            get_data(World, u, key, default) = default
                /\ (\A i \in 1..Len(orders) : orders[i].val.user_id # u)
                      => get_user_orders(World, u) = <<>>)
    /\ [][last'.op \in LookupNames
            => /\ UNCHANGED <<user_states, user_data, orders, order_counter>>
               /\ (last'.op = "get_order" /\ last'.arg \notin OrdKeys(orders))
                     => last'.ret = None
               /\ (last'.op = "get_state" /\ last'.user \notin DOMAIN user_states)
                     => last'.ret = None
               /\ (last'.op = "get_data" /\ last'.user \notin DOMAIN user_data)
                     => last'.ret \in Defaults
               /\ (/\ last'.op = "get_user_orders"
                   /\ \A i \in 1..Len(orders) : orders[i].val.user_id # last'.user)
                     => last'.ret = <<>>]_vars

\* get_data has just returned the default it was given for a user who has
\* neither a stash nor a label nor an order, while the other user has all
\* three
C21_Witness ==
    /\ last.op = "get_data"
    /\ last.ret = Some(T_short)
    /\ last.user \notin DOMAIN user_data
    /\ last.user \notin DOMAIN user_states
    /\ Len(orders) = 1
    /\ orders[1].val.user_id # last.user
    /\ orders[1].val.user_id \in DOMAIN user_data
    /\ orders[1].val.user_id \in DOMAIN user_states

\* C22 (Spec): a run of the token handler that stores an order makes exactly
\* one attempt to notify the administrator ADMIN_ID of it, and ends with the
\* order stored and the sender's conversation state cleared.
C22_OneAdminNotificationPerOrder ==
    [][(last'.op = "text" /\ Len(orders') = Len(orders) + 1)
         => /\ AdminNotifications(World, last'.user, last'.arg, last'.net) = 1
            /\ get_state(World', last'.user) = None]_vars

\* C23 (SpecWeb): a POST to /webhook whose content-type header is absent or
\* is not exactly application/json is answered 'Bad Request', 400, dispatches
\* nothing and leaves the conversation states, the stashes, the orders and
\* the counter as they were; a POST with content-type application/json is
\* answered 'OK', 200 and the stores are those the handler of the update
\* leaves.
C23_WebhookNeedsJsonContentType ==
    [][last'.op = "webhook"
         => LET content_type == last'.arg[1]
                upd == last'.arg[2]
            IN  /\ content_type # Some(JSON_TYPE)
                     => /\ last'.ret = [body |-> "Bad Request", code |-> 400,
                                       dispatched |-> FALSE]
                        /\ UNCHANGED <<user_states, user_data, orders, order_counter>>
                /\ content_type = Some(JSON_TYPE)
                     => /\ last'.ret = [body |-> "OK", code |-> 200, dispatched |-> TRUE]
                        /\ World' = process_new_updates(World, upd, last'.net, clock)]_vars

\* a well-shaped token posted under waiting_for_token with content-type
\* 'application/json; charset=utf-8' was refused: no order, and the sender
\* still waits for a token
C23_Witness ==
    /\ last.op = "webhook"
    /\ last.arg[1] = Some("application/json; charset=utf-8")
    /\ last.arg[2] = Update("text", 2, T_tok20)
    /\ last.was = Some(WAITING_FOR_TOKEN)
    /\ last.ret = [body |-> "Bad Request", code |-> 400, dispatched |-> FALSE]
    /\ get_state(World, 2) = Some(WAITING_FOR_TOKEN)
    /\ orders = <<>>

\* C29 (SpecWeb): a request to /admin, /admin/order/<id>, /admin/api/stats,
\* /admin/api/orders or /admin/api/export is answered with order data only
\* when the browser's session has admin_logged_in set, and with a redirect to
\* the login page when it has not; admin_logged_in becomes set only by a POST
\* to /admin/login with the password ADMIN_PASSWORD, and is unset after
\* /admin/logout.
C29_AdminRoutesNeedLogin ==
    [][/\ last'.op \in AdminRoutes
            => /\ last'.ret.kind = "data" => session[last'.user]
               /\ ~session[last'.user] => last'.ret = RedirectTo("admin_login")
               /\ session[last'.user] => last'.ret.kind \in {"data", "not_found"}
       /\ \A b \in Browsers :
            /\ (~session[b] /\ session'[b])
                  => /\ last'.op = "admin_login"
                     /\ last'.user = b
                     /\ last'.arg = <<"POST", Some(ADMIN_PASSWORD)>>
            /\ (last'.op = "admin_login" /\ last'.user = b
                  /\ last'.arg = <<"POST", Some(ADMIN_PASSWORD)>>)
                  => session'[b]
            /\ (last'.op = "admin_logout" /\ last'.user = b) => ~session'[b]
            /\ (session[b] /\ ~session'[b])
                  => (last'.op = "admin_logout" /\ last'.user = b)]_vars

\* browser 1 has logged in and out and has just been redirected from the
\* export to the login page, while browser 2 is logged in and an order is
\* stored
C29_Witness ==
    /\ last.op = "export_orders"
    /\ last.user = 1
    /\ last.ret = RedirectTo("admin_login")
    /\ ~session[1]
    /\ session[2]
    /\ Len(orders) = 1

\* C26 (Spec): when a run of the token handler has stored an order, the
\* sender's conversation state is cleared when the run ends, whatever the
\* outcome of the sends that follow create_order; so the sender is never
\* left in waiting_for_token with the order stored.
C26_StateClearedOnceOrderStored ==
    [][(last'.op = "text" /\ Len(orders') = Len(orders) + 1)
         => /\ get_state(World', last'.user) = None
            /\ get_data(World', last'.user, BOT_IDEA, None) = None]_vars

\* C27 (Spec): the run of handle_callback for an administrator's click on
\* status_processing_<id> or status_completed_<id> of a stored order returns,
\* having applied the status change once and notified the owner at most
\* once, whether or not the platform lets the message be deleted again.
C27_StatusClickAppliedOnce ==
    [][(/\ last'.op = "callback"
        /\ is_admin(last'.user)
        /\ startswith(last'.arg, "status_completed_")
        /\ get_order(World, replace(last'.arg, "status_completed_")) # None)
         => \A deletes \in DeleteOutcomes :
               LET r == StatusClick(World, replace(last'.arg, "status_completed_"),
                                    COMPLETED, clock, deletes, 1)
               IN  /\ r.ended = "returned"
                   /\ r.applied = 1
                   /\ r.notified <= 1
                   /\ r.w = World']_vars

\* C28 (Spec): a callback or a text message of a user who is not in ADMIN_IDS
\* leaves status, estimated_price, estimated_time, admin_notes and
\* completed_at of every stored order as they were; and no user outside
\* ADMIN_IDS is ever in a setting_price_ or an adding_note_ state.
C28_OnlyAdminsChangeOrders ==
    /\ [][last'.user \notin ADMIN_IDS
            => \A k \in OrdKeys(orders) :
                  LET o == OrdGet(orders, k)[1]
                      n == OrdGet(orders', k)[1]
                  IN  /\ k \in OrdKeys(orders')
                      /\ n.status = o.status
                      /\ n.estimated_price = o.estimated_price
                      /\ n.estimated_time = o.estimated_time
                      /\ n.admin_notes = o.admin_notes
                      /\ n.completed_at = o.completed_at]_vars
    /\ [](\A u \in Users \ ADMIN_IDS :
             get_state(World, u) # None
                => /\ ~startswith(get_state(World, u)[1], SETTING_PRICE)
                   /\ ~startswith(get_state(World, u)[1], ADDING_NOTE))

\* a user who is no administrator has just sent the callback data
\* status_completed_<id> for a stored order, which is still pending
C28_Witness ==
    /\ last.op = "callback"
    /\ last.user \notin ADMIN_IDS
    /\ last.arg = <<"status_completed_">> \o FirstId
    /\ get_order(World, FirstId) # None
    /\ get_order(World, FirstId)[1].status = PENDING
    /\ get_order(World, FirstId)[1].completed_at = None

\* C24 (SpecRace): for every interleaving of the handlers of one user's
\* updates, every stored order carries as bot_idea a text the user stashed,
\* never an absent value.
C24_EveryOrderCarriesAnIdea ==
    \A i \in 1..Len(orders) :
        /\ orders[i].val.bot_idea # None
        /\ orders[i].val.bot_idea[1] \in {T_idea, T_tok20}

\* C25 (SpecRace): between a user's entry into waiting_for_token and the
\* return to idle at most one order is stored for the user, also when two
\* accepted token messages of the user are handled at once.
C25_OneOrderPerConversation ==
    \A u \in Users : conv_orders[u] <= 1

\* C30 (SpecStamp): when update_order_status(id, COMPLETED) is run by
\* several threads for the same order, completed_at is written once: the
\* value it has after the first write is the value it has in every later
\* state.
C30_CompletedAtWrittenOnceUnderRace ==
    [][\A k \in OrdKeys(orders) :
          OrdGet(orders, k)[1].completed_at # None
             => OrdGet(orders', k)[1].completed_at
                   = OrdGet(orders, k)[1].completed_at]_vars

\* whether the event just handled is a text message an administrator sent
\* under a label that starts with the given prefix
AdminTextUnder(prefix) ==
    /\ last'.op = "text"
    /\ last'.user \in ADMIN_IDS
    /\ last'.was # None
    /\ Head(last'.was[1]) = prefix

\* C31 (Spec): when an administrator under setting_price_<id> sends a text:
\* a text of digits for a stored order writes the amount, grouped by
\* thousands and followed by the currency word, to estimated_price, sets
\* the status to PROCESSING and clears the administrator's state; a text
\* that is not all digits changes no order and keeps the state; when the
\* order is not stored no order is changed or created.
C31_PriceEntrySetsPriceAndProcessing ==
    [][AdminTextUnder(SETTING_PRICE) =>
         LET u == last'.user
             text == last'.arg
             order_id == Tail(last'.was[1])
         IN  /\ (isdigit(text) /\ get_order(World, order_id) # None) =>
                  /\ get_order(World', order_id)[1].estimated_price
                        = FormatThousands(ParseInt(text)) \o <<" ", TOMAN>>
                  /\ get_order(World', order_id)[1].status = PROCESSING
                  /\ get_state(World', u) = None
             /\ ~isdigit(text) =>
                  /\ orders' = orders
                  /\ get_state(World', u) = get_state(World, u)
             /\ get_order(World, order_id) = None =>
                  /\ orders' = orders
                  /\ order_counter' = order_counter]_vars

(***************************************************************************)
(* SpecDesk: the administrator at work on one order.  User 2 places the    *)
(* order through the intake; the administrator (user 1) presses the        *)
(* buttons of the order (price, note, the two status buttons), sends the   *)
(* texts these ask for, and opens the /admin pages in a browser.           *)
(***************************************************************************)
\* "07": digits with a leading zero
T_digits07 == <<"0", "7">>
\* a note between blanks
T_note == <<" ", "o", "k", " ">>

DeskData ==
    {<<"set_price_">> \o FirstId, <<"set_price_">> \o BogusId,
     <<"add_note_">> \o FirstId, <<"add_note_">> \o BogusId,
     <<"status_processing_">> \o FirstId, <<"status_completed_">> \o FirstId,
     <<"main_menu">>}

\* the texts sent: the customer's idea and token, and what the administrator
\* answers under a price or a note label
DeskTexts(w, u) ==
    LET cs == get_state(w, u)
    IN  IF cs = Some(WAITING_FOR_IDEA) THEN {T_idea}
        ELSE IF cs = Some(WAITING_FOR_TOKEN) THEN {T_tok20}
        ELSE IF cs = None THEN {}
        ELSE IF startswith(cs[1], SETTING_PRICE) THEN {T_idea, T_digits, T_digits07}
        ELSE {T_blank, T_note}

\* the outcomes of the sends of a run: every call succeeds, or the first
\* unguarded send after the stores were written raises
DeskNet(w, u, text) == NetFor(w, u, text) \cap {"none", "ok", "send_failed"}

DeskRequests == {<<"api_orders", <<>>>>, <<"order_detail", FirstId>>}

NextDesk ==
    \/ HandleCallback(2, <<"order_bot">>)
    \/ \E data \in DeskData : HandleCallback(ADMIN_ID, data)
    \/ \E u \in Users :
         \E text \in DeskTexts(World, u) :
           \E net \in DeskNet(World, u, text) :
             HandleTextMessage(u, text, net)
    \/ RequestLogin(1, "POST", Some(ADMIN_PASSWORD))
    \/ \E q \in DeskRequests : RequestAdmin(1, q[1], q[2])

SpecDesk == Init /\ [][NextDesk]_vars

\* C32 (SpecDesk): when an administrator under adding_note_<id> sends a
\* text: a text that is not empty after stripping, for a stored order, sets
\* admin_notes of that order to the stripped text, changes no other field of
\* any order and clears the administrator's state; a text that is empty
\* after stripping changes nothing and keeps the state; when the order is
\* not stored no order is changed and the state is cleared.
C32_NoteEntrySetsNotesOnly ==
    [][AdminTextUnder(ADDING_NOTE) =>
         LET u == last'.user
             text == last'.arg
             order_id == Tail(last'.was[1])
         IN  /\ (strip(text) # <<>> /\ get_order(World, order_id) # None) =>
                  /\ orders' = OrdSet(orders, order_id,
                                      [get_order(World, order_id)[1]
                                          EXCEPT !.admin_notes = strip(text)])
                  /\ order_counter' = order_counter
                  /\ get_state(World', u) = None
             /\ strip(text) = <<>> =>
                  /\ orders' = orders
                  /\ get_state(World', u) = get_state(World, u)
             /\ (strip(text) # <<>> /\ get_order(World, order_id) = None) =>
                  /\ orders' = orders
                  /\ get_state(World', u) = None]_vars

(***************************************************************************)
(* SpecBooks: the revenue figures.  User 2 places orders through the       *)
(* intake, the administrator enters prices for them and marks them         *)
(* completed, and the statistics are read.  The clock stands still.        *)
(* SpecDays: the same with one price text, and the clock passing midnight. *)
(***************************************************************************)
BookIds == {FormatOrderId(n) : n \in 1..MaxBookOrders}

BooksData ==
    {<<"set_price_">> \o id : id \in BookIds}
        \cup {<<"status_completed_">> \o id : id \in BookIds}
        \cup {<<"admin_stats">>}

BooksTexts(w, u) ==
    LET cs == get_state(w, u)
    IN  IF cs = Some(WAITING_FOR_IDEA) THEN {T_idea}
        ELSE IF cs = Some(WAITING_FOR_TOKEN) THEN {T_tok20}
        ELSE IF cs = None THEN {}
        ELSE {T_digits, T_digits07}

\* handle_callback, the whole run; the event records the handler only
BooksCallback(u, data) ==
    LET w2 == handle_callback(World, u, data, clock)
    IN  /\ Commit(w2)
        /\ conv_idea' = ConvNext(World, w2, u, "callback", data)
        /\ last' = Event("callback", 0, <<>>, "none", <<>>, None)
        /\ UNCHANGED <<clock, flows, threadVars, conv_orders, session, entered, accepted>>

\* handle_text_message, the whole run, every send succeeding
BooksText(u, text) ==
    LET w2 == handle_text_message(World, u, text, "ok", clock)
    IN  /\ Len(w2.orders) <= MaxBookOrders
        /\ Commit(w2)
        /\ conv_idea' = ConvNext(World, w2, u, "text", text)
        /\ flows' = FlowsNext(World, u, text, "ok")
        /\ entered' = EnteredNext(World, u, text)
        /\ last' = Event("text", 0, <<>>, "none", <<>>, None)
        /\ UNCHANGED <<clock, threadVars, conv_orders, session, accepted>>

\* the wall clock reaches 00:00:00 of the next day
BooksMidnight ==
    /\ Date(clock) < MaxDays
    /\ clock' = (Date(clock) + 1) * SecondsPerDay
    /\ last' = Event("midnight", 0, <<>>, "none", <<>>, None)
    /\ UNCHANGED <<user_states, user_data, orders, order_counter,
                   conv_idea, flows, threadVars, conv_orders, session, entered, accepted>>

NextBooks ==
    \/ BooksCallback(2, <<"order_bot">>)
    \/ \E data \in BooksData : BooksCallback(ADMIN_ID, data)
    \/ \E u \in Users :
         \E text \in BooksTexts(World, u) : BooksText(u, text)

SpecBooks == Init /\ [][NextBooks]_vars

NextDays ==
    \/ BooksCallback(2, <<"order_bot">>)
    \/ \E data \in BooksData : BooksCallback(ADMIN_ID, data)
    \/ \E u \in Users :
         \E text \in BooksTexts(World, u) \ {T_digits07} : BooksText(u, text)
    \/ BooksMidnight

SpecDays == Init /\ [][NextDays]_vars

\* the sum of the integers entered for the orders of ids
RECURSIVE EnteredSum(_)
EnteredSum(ids) ==
    IF ids = {} THEN 0
    ELSE LET id == CHOOSE x \in ids : TRUE
         IN  entered[id] + EnteredSum(ids \ {id})

\* C33 (SpecBooks): get_stats reads back exactly the prices the set-price
\* flow wrote: estimated_revenue is the sum, over the orders a price was
\* entered for, of the integer entered last for each, and completed_revenue
\* is that sum over the orders whose status is COMPLETED.
C33_StatsReadBackEnteredPrices ==
    /\ get_stats(World).estimated_revenue = EnteredSum(DOMAIN entered)
    /\ get_stats(World).completed_revenue =
          EnteredSum({id \in DOMAIN entered :
                         get_order(World, id)[1].status = COMPLETED})

\* two orders are priced, the first at 150000 and the second at 7, and only
\* the second is completed
C33_Witness ==
    /\ Len(orders) = 2
    /\ entered = (FirstId :> 150000) @@ (FormatOrderId(2) :> 7)
    /\ orders[1].val.status = PROCESSING
    /\ orders[2].val.status = COMPLETED
    /\ get_stats(World).estimated_revenue = 150007
    /\ get_stats(World).completed_revenue = 7

\* price strings get_stats cannot read: the placeholder, a blank string (no
\* first word), words that are not numbers
UnreadablePrices ==
    {PLACEHOLDER, <<" ">>, <<",">>, <<"1", "x", " ", TOMAN>>, <<"x", " ", "1">>}

\* an order that carries the price string
Priced(price) ==
    [Order(2, FullName(2), FirstId, Some(T_idea), strip(T_tok20), 0)
        EXCEPT !.estimated_price = price]

\* C34 (SpecDays): get_stats returns its figures for every stored price
\* string, a placeholder or a price that cannot be read adding nothing; and
\* in every state, whenever the statistics are read, 0 <= completed_revenue
\* <= estimated_revenue, 0 <= today_revenue <= estimated_revenue,
\* today_orders <= total and pending + processing + completed <= total.
C34_StatsFiguresWithinBounds ==
    /\ \A price \in UnreadablePrices :
          /\ Revenue(<<Priced(price)>>) = 0
          /\ Revenue(<<Priced(FormatPrice(7)), Priced(price)>>) = 7
    /\ get_stats(World).estimated_revenue
          = Revenue(SelectSeq(get_all_orders(World),
                              LAMBDA o : o.estimated_price # PLACEHOLDER))
    /\ \A now \in {clock, (Date(clock) + 1) * SecondsPerDay} :
          LET s == get_stats(World)
              t == today_stats(World, now)
          IN  /\ 0 <= s.completed_revenue
              /\ s.completed_revenue <= s.estimated_revenue
              /\ 0 <= t.today_revenue
              /\ t.today_revenue <= s.estimated_revenue
              /\ t.today_orders <= s.total
              /\ s.pending + s.processing + s.completed <= s.total

\* two orders placed on different days, both priced at 150000, the one of
\* today completed: the figures of today are a proper part of the totals
C34_Witness ==
    /\ Len(orders) = 2
    /\ Date(orders[1].val.created_at) < Date(orders[2].val.created_at)
    /\ orders[1].val.status = PROCESSING
    /\ get_stats(World).estimated_revenue = 300000
    /\ get_stats(World).completed_revenue = 150000
    /\ today_stats(World, clock).today_orders = 1
    /\ today_stats(World, clock).today_revenue = 150000

\* C35 (SpecDesk): in every state between handler runs an order whose
\* status is COMPLETED carries a completion timestamp; and an order that was
\* never COMPLETED carries none: an order is stored without one, and a run
\* that leaves an order with a timestamp it did not have leaves it COMPLETED.
C35_CompletedIffStamped ==
    /\ [](\A i \in 1..Len(orders) :
            orders[i].val.status = COMPLETED => orders[i].val.completed_at # None)
    /\ [][\A i \in 1..Len(orders') :
            LET n == orders'[i].val
                old == get_order(World, orders'[i].key)
            IN  /\ old = None => n.completed_at = None
                /\ (old # None /\ old[1].completed_at = None
                      /\ n.completed_at # None)
                     => n.status = COMPLETED]_vars

\* the administrator has just pressed the completed button of the stored
\* order, which is COMPLETED and carries the timestamp
C35_Witness ==
    /\ last.op = "callback"
    /\ last.arg = <<"status_completed_">> \o FirstId
    /\ Len(orders) = 1
    /\ orders[1].val.status = COMPLETED
    /\ orders[1].val.completed_at = Some(clock)

\* C36 (SpecDesk): through the handlers and the web routes no order is ever
\* CANCELLED and no order that left PENDING is PENDING again; an order is
\* stored as PENDING, and a status changes only to PROCESSING, by the
\* processing button or a price entry, or to COMPLETED, by the completed
\* button.
C36_HandlersOnlyAdvanceStatus ==
    /\ [](\A i \in 1..Len(orders) : orders[i].val.status # CANCELLED)
    /\ [][\A i \in 1..Len(orders') :
            LET n == orders'[i].val
                old == get_order(World, orders'[i].key)
                pressed(prefix) ==
                    /\ last'.op = "callback"
                    /\ last'.arg = <<prefix>> \o orders'[i].key
                priced ==
                    /\ last'.op = "text"
                    /\ last'.was = Some(<<SETTING_PRICE>> \o orders'[i].key)
            IN  /\ old = None => n.status = PENDING
                /\ (old # None /\ old[1].status # PENDING) => n.status # PENDING
                /\ (old # None /\ n.status # old[1].status) =>
                      \/ n.status = PROCESSING
                         /\ (pressed("status_processing_") \/ priced)
                      \/ n.status = COMPLETED /\ pressed("status_completed_")]_vars

\* a price was entered for an order that had been completed: the order is
\* back in PROCESSING, with its completion timestamp
C36_Witness ==
    /\ last.op = "text"
    /\ last.was = Some(<<SETTING_PRICE>> \o FirstId)
    /\ last.arg = T_digits
    /\ Len(orders) = 1
    /\ orders[1].val.status = PROCESSING
    /\ orders[1].val.completed_at # None

(***************************************************************************)
(* SpecIntake: the intake with the way back.  A user presses the           *)
(* start-order button, sends ideas and tokens, and presses the button      *)
(* again under waiting_for_token to send another idea.  accepted records   *)
(* the ideas each user had accepted, in order.                             *)
(***************************************************************************)
IntakeTexts(w, u) ==
    LET cs == get_state(w, u)
    IN  IF cs = Some(WAITING_FOR_IDEA) THEN {T_short, T_idea, T_nocolon}
        ELSE IF cs = Some(WAITING_FOR_TOKEN) THEN {T_nocolon, T_tok20}
        ELSE {T_idea}

\* handle_text_message, the whole run
IntakeText(u, text, net) ==
    LET w2 == handle_text_message(World, u, text, net, clock)
        \* line 801: the text is taken as the idea
        taken == /\ get_state(World, u) = Some(WAITING_FOR_IDEA)
                 /\ Len(strip(text)) >= MinIdeaLen
    IN  /\ Len(w2.orders) <= MaxOrders
        /\ taken => Len(accepted[u]) < MaxIdeas
        /\ Commit(w2)
        /\ conv_idea' = ConvNext(World, w2, u, "text", text)
        /\ flows' = FlowsNext(World, u, text, net)
        /\ entered' = EnteredNext(World, u, text)
        /\ accepted' = IF taken THEN [accepted EXCEPT ![u] = Append(@, text)]
                       ELSE accepted
        /\ last' = Event("text", u, text, net, <<>>, get_state(World, u))
        /\ UNCHANGED <<clock, threadVars, conv_orders, session>>

NextIntake ==
    \/ \E u \in Users : HandleCallback(u, <<"order_bot">>)
    \/ \E u \in Users :
         \E text \in IntakeTexts(World, u) :
           \E net \in NetFor(World, u, text) :
             IntakeText(u, text, net)

SpecIntake == Init /\ [][NextIntake]_vars

\* C37 (SpecIntake): an order the intake creates carries the sender of the
\* token message as user_id, the stripped token text as bot_token, the
\* handle the platform resolved as bot_username, and as bot_idea the idea
\* accepted last from that user before the token: after going back with the
\* start-order button and sending another idea, the later idea.
C37_OrderCarriesLatestIdea ==
    [][\A u \in Users :
         (last'.op = "text" /\ last'.user = u /\ Len(orders') = Len(orders) + 1)
         => LET n == orders'[Len(orders')].val
            IN  /\ n.user_id = u
                /\ n.bot_token = strip(last'.arg)
                /\ n.bot_username = Some(BotHandle)
                /\ accepted[u] # <<>>
                /\ n.bot_idea = Some(accepted[u][Len(accepted[u])])]_vars

\* user 2 had one idea accepted, went back, had another accepted, and the
\* token has just created the order, which carries the second idea
C37_Witness ==
    /\ last.op = "text"
    /\ last.user = 2
    /\ last.was = Some(WAITING_FOR_TOKEN)
    /\ accepted[2] = <<T_idea, T_nocolon>>
    /\ Len(orders) = 1
    /\ orders[1].val.user_id = 2
    /\ orders[1].val.bot_idea = Some(T_nocolon)
    /\ orders[1].val.bot_token = strip(T_tok20)

(***************************************************************************)
(* SpecRead: the runs of SpecDesk, and between them the commands, buttons  *)
(* and texts that only read the stores.                                    *)
(***************************************************************************)
ReadOnlyData ==
    {<<"my_orders">>, <<"support">>, <<"help">>, <<"admin_panel">>,
     <<"admin_stats">>, <<"admin_new_orders">>, <<"admin_processing">>,
     <<"admin_completed">>, <<"view_order_">> \o FirstId,
     <<"view_order_">> \o BogusId}

NextRead ==
    \/ NextDesk
    \/ \E u \in Users, data \in ReadOnlyData : HandleCallback(u, data)
    \/ \E u \in Users : HandleMyOrders(u)
    \/ \E u \in Users :
         /\ get_state(World, u) = None
         /\ HandleTextMessage(u, T_idea, "none")

SpecRead == Init /\ [][NextRead]_vars

\* whether the event just handled is one of the reading ones
ReadOnlyEvent ==
    \/ /\ last'.op = "callback"
       /\ \/ last'.arg \in {<<"my_orders">>, <<"support">>, <<"help">>,
                            <<"admin_panel">>, <<"admin_stats">>,
                            <<"admin_new_orders">>, <<"admin_processing">>,
                            <<"admin_completed">>}
          \/ Head(last'.arg) = "view_order_"
    \/ last'.op = "command" /\ last'.arg = <<"/myorders">>
    \/ last'.op = "text" /\ last'.was = None

\* C38 (SpecRead): the buttons my_orders, support, help, admin_panel,
\* admin_stats, admin_new_orders, admin_processing, admin_completed and
\* view_order_<id>, the /myorders command, and a text from a user who has no
\* conversation state leave the state and the stash of every user, every
\* order and the order counter as they were.
C38_ReadOnlyActionsChangeNothing ==
    [][ReadOnlyEvent =>
         /\ user_states' = user_states
         /\ user_data' = user_data
         /\ orders' = orders
         /\ order_counter' = order_counter]_vars

\* the administrator, about to enter a price, has just viewed the stored
\* order and is still under the price label
C38_Witness ==
    /\ last.op = "callback"
    /\ last.user = ADMIN_ID
    /\ last.arg = <<"view_order_">> \o FirstId
    /\ last.was = Some(<<SETTING_PRICE>> \o FirstId)
    /\ get_state(World, ADMIN_ID) = Some(<<SETTING_PRICE>> \o FirstId)
    /\ Len(orders) = 1
    /\ order_counter = 2

====
